---- MODULE Spec2Model ----
(***************************************************************************)
(* Verification development for saqibmir1/scra-verify.                     *)
(*                                                                         *)
(* Part 1: the client tracking facade (hooks/useRealTimeVerification.ts)   *)
(* on top of the realtime helpers of lib/supabase.ts, together with the    *)
(* durable store rows they observe.                                        *)
(***************************************************************************)
EXTENDS Integers, Sequences, FiniteSets, TLC

\* ---------------------------------------------------------------- bounds
MaxCalls == 2           \* startTracking invocations in one behaviour
MaxStops == 1           \* stopTracking invocations in one behaviour
MaxShots == 2           \* screenshot rows inserted in one behaviour
MaxCommits == 4         \* session row updates in one behaviour
MaxReplays == 1         \* insert events the change feed delivers twice
MaxChannelErrors == 1   \* transport errors reported on channels
MaxFetches == 2         \* getUserVerifications invocations in one behaviour
MaxRecords == 1         \* verification records saved in one behaviour
MaxTicks == 2           \* clock advances in one behaviour
MaxSigned == 4          \* signed URLs issued in one behaviour
MaxListed == 3          \* records of one history list
MaxSubmits == 2         \* handleSubmit runs that send a request
MaxConversions == 2     \* files selected on the batch page
MaxStepRetries == 1     \* in-place retries of one automation step
MaxDeletes == 1         \* deleteVerification calls
MaxInFlight == 2        \* status requests of the poll hook in flight
MaxPollFailures == 1    \* status requests that fail

\* ------------------------------------------------------------- constants
SessionIds == {"A", "B"}
UploadTimes == {1, 2}

UserIds == {<<"u", "1">>, <<"u", "1", "2">>}
RecordIds == {"r1", "r2"}
DefaultLimit == 25
CACHE_DURATION == 300000
maxRetries == 2
TickMs == 150000
QueryOutcomes == {"ok", "timeout", "other"}

NoSession == [session_id |-> "none", status |-> "none", progress |-> 0]
NoError == "null"
NoTracked == "none"
NoRecord == [sessionId |-> "none", userId |-> <<>>]
NoUrl == [name |-> "none", token |-> 0]
NoStats == [total |-> 0, successful |-> 0, failed |-> 0, errors |-> 0,
            success_rate |-> 0]
Statuses == {"in_progress", "completed", "failed"}
NoResult == [success |-> FALSE, sessionId |-> "none", screenshots |-> FALSE,
             pdf |-> FALSE, error |-> "null"]
NoResponse == [success |-> FALSE, sessionId |-> "none", screenshots |-> FALSE,
               pdf |-> FALSE, error |-> "pending"]
NoValidation == [valid |-> FALSE, record_count |-> 0, error_count |-> 0,
                 total_records |-> 0]
NoConversion == [kind |-> "pending", success |-> FALSE,
                 fixed_width_content |-> <<>>, validation_errors |-> FALSE,
                 error_count |-> 0]
Files == {"f1", "f2"}
SIGNED_URL_CACHE_DURATION == 1800000
UrlTickMs == 900000
possibleFilenames == <<"scra_result.pdf", "scra_verification_report.pdf",
                       "scra_multi_record_result.pdf">>

VARIABLES
    \* useRealTimeVerification state
    session, screenshots, loading, error, subscriptionsRef,
    \* startTracking invocations that are running or have settled
    calls,
    \* realtime channels created by subscribeToSession / subscribeToScreenshots
    subs,
    \* insert callbacks of subscribeToScreenshots awaiting createSignedUrl
    urlPending,
    \* durable store
    dbSessions, dbScreenshots,
    \* history: the session id of the last startTracking (none after stop),
    \* the row of the last delivered session update since the last snapshot
    tracked, lastUpdate,
    \* bound counters
    nStops, nCommits, nReplays, nChannelErrors,
    \* lib/supabase.ts: the record list cache, the verifications table,
    \* the getUserVerifications invocations and Date.now()
    verificationCache, dbVerifications, fetches, clock, nTicks,
    \* HistoryPage state; history: the index of the getUserVerifications call
    \* whose rows are displayed, whether they were served by the cache, and
    \* the index of the call started by the last Refresh click
    history, historyLoading, historyError,
    historyFrom, historyFromCache, historyRefresh,
    \* VerificationDetailPage state and the position of its
    \* fetchVerificationDetails call (pdfIdx: the file name getPdfUrl is
    \* asked for, urlNow: the "now" of the running URL request)
    record, detailScreenshots, selectedScreenshot, pdfUrl, detailLoading,
    detailError, isInitialized, detailPc, pdfIdx, urlNow,
    \* how the last getVerificationDetails request settled
    detailsOutcome,
    \* lib/supabase.ts: the signed URL caches; the signed URLs issued so far
    screenshotCache, pdfCache, nSigned,
    \* history: nSigned at the last refreshData (-1: none), the cache keys
    \* filled and the cache keys served from the cache since the last
    \* clearVerificationCache call
    refreshedAt, filledKeys, servedKeys,
    \* the records of one fetchHistory run with their status fields and the
    \* statistics computed from them
    records, stats,
    \* the submit pages: which of the two routes is open, the state both
    \* pages hold (isSubmitting, result) and that of the single-record page
    \* (currentJobId, errors, showSettings), the handleSubmit runs
    route, isSubmitting, result, currentJobId, errors, showSettings, submits,
    \* localStorage of the single-record page: the saved verification state
    savedState,
    \* the batch page: the selected file, the stored encoding, the validation
    \* result, the convertAndValidateCSV runs and the result the last
    \* finished conversion request gave
    csvFile, fixedWidthContent, validation, isValidating, conversions,
    converted,
    \* the Automation State Machine: per session the state the driving
    \* routine is in, the retries spent on the current step and whether the
    \* routine has returned
    machine,
    \* the deleteVerification calls that are running or have settled
    deletes,
    \* useSessionStatus: the hook's state, its status requests in flight, the
    \* status the backend holds for the session, the requests that failed
    hook,
    polls,
    backendStatus,
    nPollFailures,
    \* the date fields of the single-record form: the browser's
    \* getTimezoneOffset(), the two Date values of formData, what the user
    \* picked last in each input, the dates of the last verify request
    timezoneOffset,
    formDates,
    pickedDates,
    sentDates

trackVars == <<session, screenshots, loading, error, subscriptionsRef, calls,
               subs, urlPending, dbSessions, dbScreenshots, tracked,
               lastUpdate, nStops, nCommits, nReplays, nChannelErrors>>

fetchVars == <<verificationCache, dbVerifications, fetches, clock, nTicks>>

historyVars == <<history, historyLoading, historyError,
                 historyFrom, historyFromCache, historyRefresh>>

detailVars == <<record, detailScreenshots, selectedScreenshot, pdfUrl,
                detailLoading, detailError, isInitialized, detailPc, pdfIdx,
                urlNow, detailsOutcome, screenshotCache, pdfCache, nSigned,
                refreshedAt, filledKeys, servedKeys>>

badgeVars == <<records, stats>>

submitVars == <<route, isSubmitting, result, currentJobId, errors,
                showSettings, submits, savedState>>

batchVars == <<csvFile, fixedWidthContent, validation, isValidating,
               conversions, converted>>

autoVars == <<machine>>

deleteVars == <<deletes>>

pollVars == <<hook, polls, backendStatus, nPollFailures>>

dateVars == <<timezoneOffset, formDates, pickedDates, sentDates>>

laterVars == <<autoVars, deleteVars, pollVars, dateVars>>

restVars == <<badgeVars, submitVars, batchVars, laterVars>>

pageVars == <<historyVars, detailVars, restVars>>

vars == <<trackVars, fetchVars, pageVars>>

\* ------------------------------------------------------ session row model
Terminal == {"completed", "failed"}

Row(sid, st, p) == [session_id |-> sid, status |-> st, progress |-> p]

\* the rows the automation may write after row r: the step sequence emits
\* progress 33, 66, 100, then the terminal status
NextRows(r) ==
    IF r.status = "pending" THEN {Row(r.session_id, "in_progress", 33)}
    ELSE IF r.status = "in_progress" THEN
        (IF r.progress = 33 THEN {Row(r.session_id, "in_progress", 66)}
         ELSE IF r.progress = 66 THEN {Row(r.session_id, "in_progress", 100)}
         ELSE {Row(r.session_id, "completed", 100)})
        \cup {Row(r.session_id, "failed", r.progress)}
    ELSE {}

\* ------------------------------------------------------- pure operations
RECURSIVE InsertSorted(_, _)
InsertSorted(sorted, x) ==
    IF sorted = <<>> THEN <<x>>
    ELSE IF x.uploaded_at - sorted[Len(sorted)].uploaded_at >= 0
         THEN Append(sorted, x)
         ELSE Append(InsertSorted(SubSeq(sorted, 1, Len(sorted) - 1), x),
                     sorted[Len(sorted)])

\* Array.prototype.sort with comparator a.uploaded_at - b.uploaded_at (stable)
RECURSIVE SortByUploadedAt(_)
SortByUploadedAt(s) ==
    IF s = <<>> THEN <<>>
    ELSE InsertSorted(SortByUploadedAt(SubSeq(s, 1, Len(s) - 1)), s[Len(s)])

\* mutation: the updater without the duplicate test
OnScreenshotUpdateNoDedup(prev, shot) == SortByUploadedAt(Append(prev, shot))

\* mutation: the updater without the re-sort
OnScreenshotUpdateNoSort(prev, shot) ==
    IF \E i \in 1..Len(prev) : prev[i].id = shot.id
    THEN prev
    ELSE Append(prev, shot)

\* the updater passed to setScreenshots by the insert callback
OnScreenshotUpdate(prev, shot) ==
    IF \E i \in 1..Len(prev) : prev[i].id = shot.id
    THEN prev
    ELSE SortByUploadedAt(Append(prev, shot))

\* mutation: the callback copies only the progress of the delivered row
OnSessionUpdateProgressOnly(prev, updatedSession) ==
    IF prev = NoSession THEN updatedSession
    ELSE [prev EXCEPT !.progress = updatedSession.progress]

\* the callback passed to subscribeToSession: setSession(updatedSession)
OnSessionUpdate(prev, updatedSession) == updatedSession

RECURSIVE SeqOfSet(_)
SeqOfSet(S) ==
    IF S = {} THEN <<>>
    ELSE LET x == CHOOSE y \in S : \A z \in S : y.id <= z.id
         IN <<x>> \o SeqOfSet(S \ {x})

\* rows of one session, ".order('uploaded_at', { ascending: true })"
ScreenshotRows(sid) ==
    SortByUploadedAt(SeqOfSet({r \in dbScreenshots : r.session_id = sid}))

\* the list served by the backend route /screenshots/{sessionId}
BackendScreenshots(sid) == ScreenshotRows(sid)

RECURSIVE Keep(_, _)
Keep(s, ids) ==
    IF s = <<>> THEN <<>>
    ELSE IF s[1].id \in ids THEN <<s[1]>> \o Keep(Tail(s), ids)
         ELSE Keep(Tail(s), ids)

RemoveAt(s, i) == SubSeq(s, 1, i - 1) \o SubSeq(s, i + 1, Len(s))

\* ------------------------------------------------------------------ Init
TrackInit ==
    /\ session = NoSession
    /\ screenshots = <<>>
    /\ loading = FALSE
    /\ error = NoError
    /\ subscriptionsRef = {}
    /\ calls = <<>>
    /\ subs = <<>>
    /\ urlPending = <<>>
    /\ dbSessions = [s \in SessionIds |-> Row(s, "pending", 0)]
    /\ dbScreenshots = {}
    /\ tracked = NoTracked
    /\ lastUpdate = NoSession
    /\ nStops = 0
    /\ nCommits = 0
    /\ nReplays = 0
    /\ nChannelErrors = 0

FetchInit ==
    /\ verificationCache = {}
    /\ dbVerifications = <<>>
    /\ fetches = <<>>
    /\ clock = 0
    /\ nTicks = 0

HistoryInit ==
    /\ history = <<>>
    /\ historyLoading = TRUE
    /\ historyError = NoError
    /\ historyFrom = 0
    /\ historyFromCache = FALSE
    /\ historyRefresh = 0

DetailInit ==
    /\ record = NoRecord
    /\ detailScreenshots = <<>>
    /\ selectedScreenshot = NoUrl
    /\ pdfUrl = NoUrl
    /\ detailLoading = TRUE
    /\ detailError = NoError
    /\ isInitialized = FALSE
    /\ detailPc = "unmounted"
    /\ pdfIdx = 0
    /\ urlNow = 0
    /\ detailsOutcome = "none"
    /\ screenshotCache = {}
    /\ pdfCache = {}
    /\ nSigned = 0
    /\ refreshedAt = -1
    /\ filledKeys = {}
    /\ servedKeys = {}

BadgeInit ==
    /\ records = <<>>
    /\ stats = NoStats

SubmitInit ==
    /\ route = "none"
    /\ isSubmitting = FALSE
    /\ result = NoResult
    /\ currentJobId = "none"
    /\ errors = {}
    /\ showSettings = FALSE
    /\ submits = <<>>
    /\ savedState = NoResult

BatchInit ==
    /\ csvFile = "none"
    /\ fixedWidthContent = <<>>
    /\ validation = NoValidation
    /\ isValidating = FALSE
    /\ conversions = <<>>
    /\ converted = NoConversion

AutoInit ==
    machine = [s \in SessionIds |->
                 [state |-> "IDLE", retries |-> 0, returned |-> FALSE]]

DeleteInit == deletes = <<>>

PollInit ==
    /\ hook = [sessionId |-> "none", status |-> "none", error |-> FALSE,
               isLoading |-> FALSE, effectStatus |-> "none"]
    /\ polls = <<>>
    /\ backendStatus = "pending"
    /\ nPollFailures = 0

PageInit ==
    /\ HistoryInit /\ DetailInit /\ BadgeInit /\ SubmitInit /\ BatchInit
    /\ AutoInit
    /\ DeleteInit
    /\ PollInit

\* ------------------------------------------------------------ Date values
\* a Date is the number of minutes since the epoch
MinutesPerDay == 24 * 60

DateFields == {"dateOfBirth", "activeDutyDate"}

NoDate == [year |-> 0, month |-> 0, day |-> 0]

\* the day number of a calendar date (days since 1970-01-01)
DaysFromCivil(date) ==
    LET y == IF date.month <= 2 THEN date.year - 1 ELSE date.year
        era == y \div 400
        yoe == y - era * 400
        mp == IF date.month > 2 THEN date.month - 3 ELSE date.month + 9
        doy == (153 * mp + 2) \div 5 + date.day - 1
        doe == yoe * 365 + yoe \div 4 - yoe \div 100 + doy
    IN era * 146097 + doe - 719468

\* the calendar date of a day number
CivilFromDays(days) ==
    LET z == days + 719468
        era == z \div 146097
        doe == z - era * 146097
        yoe == (doe - doe \div 1460 + doe \div 36524 - doe \div 146096) \div 365
        doy == doe - (365 * yoe + yoe \div 4 - yoe \div 100)
        mp == (5 * doy + 2) \div 153
        m == IF mp < 10 THEN mp + 3 ELSE mp - 9
    IN [year |-> yoe + era * 400 + (IF m <= 2 THEN 1 ELSE 0),
        month |-> m,
        day |-> doy - (153 * mp + 2) \div 5 + 1]

\* new Date("YYYY-MM-DD"): a date-only string is midnight UTC of that day
NewDate(value) ==
    DaysFromCivil([year |-> value[1], month |-> value[2], day |-> value[3]])
        * MinutesPerDay

\* getFullYear, getMonth() + 1 and getDate: the fields of local time, which
\* is UTC minus getTimezoneOffset() minutes
LocalFields(date, offset) == CivilFromDays((date - offset) \div MinutesPerDay)

\* the date part of toISOString: the fields of UTC
UTCFields(date) == CivilFromDays(date \div MinutesPerDay)

\* formatDateToISO: "YYYY-MM-DD"
formatDateToISO(date) ==
    <<UTCFields(date).year, UTCFields(date).month, UTCFields(date).day>>

\* formatDateToMMDDYYYY: "MM/DD/YYYY"
formatDateToMMDDYYYY(date, offset) ==
    <<LocalFields(date, offset).month, LocalFields(date, offset).day,
      LocalFields(date, offset).year>>

\* getTimezoneOffset() of UTC+14, UTC+5:30, UTC+1, UTC, UTC-5 and UTC-12
TimezoneOffsets == {-840, -330, -60, 0, 300, 720}

\* the dates the user picks
PickableDates ==
    {[year |-> 1990, month |-> 6, day |-> 15],
     [year |-> 2000, month |-> 12, day |-> 31],
     [year |-> 2024, month |-> 1, day |-> 1],
     [year |-> 2024, month |-> 2, day |-> 29]}

\* new Date() when the form is created: 2024-03-10 10:00 UTC
Now == DaysFromCivil([year |-> 2024, month |-> 3, day |-> 10]) * MinutesPerDay
           + 10 * 60

NoSentDates == [f \in DateFields |-> <<>>]

DateInitIn(offsets) ==
    /\ timezoneOffset \in offsets
    /\ formDates = [f \in DateFields |-> Now]
    /\ pickedDates = [f \in DateFields |-> NoDate]
    /\ sentDates = NoSentDates

Init == TrackInit /\ FetchInit /\ PageInit /\ DateInitIn({0})

\* ----------------------------------------------------- facade operations
SetCall(c, rec) == calls' = [calls EXCEPT ![c] = rec]

\* startTracking up to its first await
StartTracking(sid) ==
    /\ Len(calls) < MaxCalls
    /\ loading' = TRUE
    /\ error' = NoError
    /\ session' = NoSession
    /\ screenshots' = <<>>
    /\ calls' = Append(calls, [sid |-> sid, pc |-> "getSession",
                               snap |-> NoSession, shots |-> <<>>])
    /\ tracked' = sid
    /\ lastUpdate' = NoSession
    /\ UNCHANGED <<subscriptionsRef, subs, urlPending, dbSessions,
                   dbScreenshots, nStops, nCommits, nReplays, nChannelErrors>>

\* the store answers the session query of call c with the current row
GetVerificationSession(c) ==
    /\ calls[c].pc = "getSession"
    /\ SetCall(c, [calls[c] EXCEPT !.pc = "sessionResp",
                                   !.snap = dbSessions[calls[c].sid]])
    /\ UNCHANGED <<session, screenshots, loading, error, subscriptionsRef,
                   subs, urlPending, dbSessions, dbScreenshots, tracked,
                   lastUpdate, nStops, nCommits, nReplays, nChannelErrors>>

\* a snapshot read of call c throws: catch sets error, finally clears loading
SnapshotReadFailsNoFinally(c) ==
    /\ calls[c].pc \in {"getSession", "getShots"}
    /\ SetCall(c, [calls[c] EXCEPT !.pc = "failed", !.snap = NoSession])
    /\ error' = "Failed to start tracking"
    /\ UNCHANGED <<session, screenshots, loading, subscriptionsRef, subs,
                   urlPending, dbSessions, dbScreenshots, tracked, lastUpdate,
                   nStops, nCommits, nReplays, nChannelErrors>>

SnapshotReadFails(c) ==
    /\ calls[c].pc \in {"getSession", "getShots"}
    /\ SetCall(c, [calls[c] EXCEPT !.pc = "failed", !.snap = NoSession])
    /\ error' = "Failed to start tracking"
    /\ loading' = FALSE
    /\ UNCHANGED <<session, screenshots, subscriptionsRef, subs, urlPending,
                   dbSessions, dbScreenshots, tracked, lastUpdate, nStops,
                   nCommits, nReplays, nChannelErrors>>

\* startTracking resumes with the session row and requests the screenshots
ResumeWithSession(c) ==
    /\ calls[c].pc = "sessionResp"
    /\ session' = IF calls[c].snap # NoSession THEN calls[c].snap ELSE session
    /\ lastUpdate' = IF calls[c].snap # NoSession THEN NoSession ELSE lastUpdate
    /\ SetCall(c, [calls[c] EXCEPT !.pc = "getShots", !.snap = NoSession])
    /\ UNCHANGED <<screenshots, loading, error, subscriptionsRef, subs,
                   urlPending, dbSessions, dbScreenshots, tracked, nStops,
                   nCommits, nReplays, nChannelErrors>>

\* the screenshot list of call c is read: from the backend route, or on the
\* fallback path from the store, dropping the rows whose signed URL could
\* not be created
GetSessionScreenshots(c, fallback, kept) ==
    /\ calls[c].pc = "getShots"
    /\ fallback \/ kept = {r.id : r \in dbScreenshots}
    /\ SetCall(c, [calls[c] EXCEPT !.pc = "shotsResp",
                       !.shots = IF fallback
                                 THEN Keep(ScreenshotRows(calls[c].sid), kept)
                                 ELSE BackendScreenshots(calls[c].sid)])
    /\ UNCHANGED <<session, screenshots, loading, error, subscriptionsRef,
                   subs, urlPending, dbSessions, dbScreenshots, tracked,
                   lastUpdate, nStops, nCommits, nReplays, nChannelErrors>>

NewSub(sid, kind) == [sid |-> sid, kind |-> kind, state |-> "joined",
                      queue |-> <<>>]

\* startTracking resumes with the screenshots, subscribes and settles
ResumeWithScreenshots(c) ==
    /\ calls[c].pc = "shotsResp"
    /\ screenshots' = IF Len(calls[c].shots) > 0 THEN calls[c].shots
                      ELSE screenshots
    /\ subs' = subs \o <<NewSub(calls[c].sid, "session"),
                         NewSub(calls[c].sid, "screenshots")>>
    /\ subscriptionsRef' = {Len(subs) + 1, Len(subs) + 2}
    /\ loading' = FALSE
    /\ SetCall(c, [calls[c] EXCEPT !.pc = "done", !.shots = <<>>])
    /\ UNCHANGED <<session, error, urlPending, dbSessions, dbScreenshots,
                   tracked, lastUpdate, nStops, nCommits, nReplays,
                   nChannelErrors>>

Unsubscribe(sub) == [sub EXCEPT !.state = "closed", !.queue = <<>>]

StopTracking ==
    /\ nStops < MaxStops
    /\ nStops' = nStops + 1
    /\ subs' = [i \in 1..Len(subs) |->
                  IF i \in subscriptionsRef THEN Unsubscribe(subs[i])
                  ELSE subs[i]]
    /\ subscriptionsRef' = {}
    /\ session' = NoSession
    /\ screenshots' = <<>>
    /\ error' = NoError
    /\ tracked' = NoTracked
    /\ lastUpdate' = NoSession
    /\ UNCHANGED <<loading, calls, urlPending, dbSessions, dbScreenshots,
                   nCommits, nReplays, nChannelErrors>>

\* ------------------------------------------------- store and change feed
Publish(kind, sid, row) ==
    subs' = [i \in 1..Len(subs) |->
               IF /\ subs[i].kind = kind
                  /\ subs[i].sid = sid
                  /\ subs[i].state = "joined"
               THEN [subs[i] EXCEPT !.queue = Append(@, row)]
               ELSE subs[i]]

\* the automation writes the next session row
UpdateSession(sid) ==
    /\ nCommits < MaxCommits
    /\ \E r \in NextRows(dbSessions[sid]) :
          /\ dbSessions' = [dbSessions EXCEPT ![sid] = r]
          /\ Publish("session", sid, r)
    /\ nCommits' = nCommits + 1
    /\ UNCHANGED <<session, screenshots, loading, error, subscriptionsRef,
                   calls, urlPending, dbScreenshots, tracked, lastUpdate,
                   nStops, nReplays, nChannelErrors>>

\* the capture unit appends a screenshot row
InsertScreenshot(sid, at) ==
    /\ Cardinality(dbScreenshots) < MaxShots
    /\ LET r == [id |-> Cardinality(dbScreenshots) + 1, session_id |-> sid,
                 uploaded_at |-> at]
       IN /\ dbScreenshots' = dbScreenshots \cup {r}
          /\ Publish("screenshots", sid, r)
    /\ UNCHANGED <<session, screenshots, loading, error, subscriptionsRef,
                   calls, urlPending, dbSessions, tracked, lastUpdate, nStops,
                   nCommits, nReplays, nChannelErrors>>

\* the postgres_changes handler of subscribeToSession
OnSessionChange(s) ==
    /\ subs[s].kind = "session"
    /\ subs[s].queue # <<>>
    /\ session' = OnSessionUpdate(session, Head(subs[s].queue))
    /\ lastUpdate' = Head(subs[s].queue)
    /\ subs' = [subs EXCEPT ![s].queue = Tail(@)]
    /\ UNCHANGED <<screenshots, loading, error, subscriptionsRef, calls,
                   urlPending, dbSessions, dbScreenshots, tracked, nStops,
                   nCommits, nReplays, nChannelErrors>>

\* the INSERT handler of subscribeToScreenshots up to its await; the feed
\* may deliver the same event once more (replay)
OnScreenshotInsert(s, replay) ==
    /\ subs[s].kind = "screenshots"
    /\ subs[s].queue # <<>>
    /\ urlPending' = Append(urlPending, Head(subs[s].queue))
    /\ IF replay
       THEN /\ nReplays < MaxReplays
            /\ nReplays' = nReplays + 1
            /\ UNCHANGED subs
       ELSE /\ subs' = [subs EXCEPT ![s].queue = Tail(@)]
            /\ UNCHANGED nReplays
    /\ UNCHANGED <<session, screenshots, loading, error, subscriptionsRef,
                   calls, dbSessions, dbScreenshots, tracked, lastUpdate,
                   nStops, nCommits, nChannelErrors>>

\* createSignedUrl settles for the i-th waiting insert callback
SignedUrlSettles(i, ok) ==
    /\ i \in 1..Len(urlPending)
    /\ urlPending' = RemoveAt(urlPending, i)
    /\ screenshots' = IF ok THEN OnScreenshotUpdate(screenshots, urlPending[i])
                      ELSE screenshots
    /\ UNCHANGED <<session, loading, error, subscriptionsRef, calls, subs,
                   dbSessions, dbScreenshots, tracked, lastUpdate, nStops,
                   nCommits, nReplays, nChannelErrors>>

\* the channel of subscription s reports CHANNEL_ERROR to its status callback
ChannelError(s) ==
    /\ nChannelErrors < MaxChannelErrors
    /\ subs[s].state = "joined"
    /\ nChannelErrors' = nChannelErrors + 1
    /\ subs' = [subs EXCEPT ![s].state = "errored"]
    /\ UNCHANGED <<session, screenshots, loading, error, subscriptionsRef,
                   calls, urlPending, dbSessions, dbScreenshots, tracked,
                   lastUpdate, nStops, nCommits, nReplays>>

\* startTracking and its snapshot reads, common to every specification
StartTrackingSteps ==
    \/ \E sid \in SessionIds : StartTracking(sid)
    \/ \E c \in 1..Len(calls) : GetVerificationSession(c)
    \/ \E c \in 1..Len(calls) : SnapshotReadFails(c)
    \/ \E c \in 1..Len(calls) : ResumeWithSession(c)
    \/ \E c \in 1..Len(calls) :
          \E fallback \in BOOLEAN, kept \in SUBSET {r.id : r \in dbScreenshots} :
              GetSessionScreenshots(c, fallback, kept)
    \/ \E c \in 1..Len(calls) : ResumeWithScreenshots(c)

\* the session half of the facade: session rows and their change feed
SessionNext ==
    /\ \/ StartTrackingSteps
       \/ StopTracking
       \/ \E sid \in SessionIds : UpdateSession(sid)
       \/ \E s \in 1..Len(subs) : OnSessionChange(s)
    /\ UNCHANGED <<fetchVars, pageVars>>

\* the screenshot half of the facade: screenshot rows and their change feed
ScreenshotNext ==
    /\ \/ StartTrackingSteps
       \/ \E sid \in SessionIds, at \in UploadTimes : InsertScreenshot(sid, at)
       \/ \E s \in 1..Len(subs), replay \in BOOLEAN :
             OnScreenshotInsert(s, replay)
       \/ \E i \in 1..Len(urlPending), ok \in BOOLEAN :
             SignedUrlSettles(i, ok)
    /\ UNCHANGED <<fetchVars, pageVars>>

\* the subscription life cycle: channels created, closed and failing
ChannelNext ==
    /\ \/ StartTrackingSteps
       \/ StopTracking
       \/ \E s \in 1..Len(subs) : ChannelError(s)
    /\ UNCHANGED <<fetchVars, pageVars>>

ChannelSpec == Init /\ [][ChannelNext]_vars

SessionSpec == Init /\ [][SessionNext]_vars

ScreenshotSpec == Init /\ [][ScreenshotNext]_vars

\* --------------------------------------------- getUserVerifications model
\* `verifications_${userId}_${limit}` as a sequence of characters
CacheKey(userId, limit) == <<"verifications_">> \o userId \o <<"_", limit>>

CacheHas(key) == \E e \in verificationCache : e.key = key

CacheGet(key) == CHOOSE e \in verificationCache : e.key = key

\* Map.set: the entry of the key is replaced
CacheSet(cache, key, data, timestamp) ==
    {e \in cache : e.key # key}
        \cup {[key |-> key, data |-> data, timestamp |-> timestamp]}

RECURSIVE Reverse(_)
Reverse(s) == IF s = <<>> THEN <<>> ELSE Append(Reverse(Tail(s)), Head(s))

RECURSIVE OfUser(_, _)
OfUser(s, userId) ==
    IF s = <<>> THEN <<>>
    ELSE IF Head(s).userId = userId
         THEN <<Head(s)>> \o OfUser(Tail(s), userId)
         ELSE OfUser(Tail(s), userId)

\* .eq('user_id', userId).order('created_at', {ascending: false}).limit(limit)
QueryVerifications(userId, limit) ==
    LET rows == Reverse(OfUser(dbVerifications, userId))
    IN SubSeq(rows, 1, IF Len(rows) < limit THEN Len(rows) ELSE limit)

\* the error test of the retry loop: message includes 'timeout' or code 57014
IsTimeoutError(outcome) == outcome = "timeout"

\* what one settled query attempt of the retry loop leads to, given the
\* attempt number: "return", "backoff" (wait, then the next attempt) or
\* "throw" (the error leaves getUserVerifications)
AfterAttemptNoRetry(outcome, attempt) ==
    IF outcome = "ok" THEN "return" ELSE "throw"

AfterAttempt(outcome, attempt) ==
    IF outcome = "ok" THEN "return"
    ELSE IF IsTimeoutError(outcome) /\ attempt < maxRetries
         THEN "backoff"
         \* "throw error" inside the try block is caught by the catch block
         ELSE IF attempt < maxRetries THEN "backoff" ELSE "throw"

\* a call that has returned or thrown: its locals are gone, its outcome stays
Settle(c) == [c EXCEPT !.now = 0, !.attempt = 0]

SetFetch(f, rec) == fetches' = [fetches EXCEPT ![f] = rec]

\* saveVerificationToSupabase inserts one record
SaveVerification(userId, sessionId) ==
    /\ Len(dbVerifications) < MaxRecords
    /\ \A i \in 1..Len(dbVerifications) : dbVerifications[i].sessionId # sessionId
    /\ dbVerifications' = Append(dbVerifications,
                                 [sessionId |-> sessionId, userId |-> userId])
    /\ UNCHANGED <<verificationCache, fetches, clock, nTicks>>

\* Date.now() advances
Tick ==
    /\ nTicks < MaxTicks
    /\ nTicks' = nTicks + 1
    /\ clock' = clock + TickMs
    /\ UNCHANGED <<verificationCache, dbVerifications, fetches>>

\* the cache test of getUserVerifications against a cache content
CacheHit(cache, key, useCache) ==
    /\ useCache
    /\ \E e \in cache : e.key = key /\ clock - e.timestamp < CACHE_DURATION

\* the invocation record of getUserVerifications after its cache check
CallRecord(cache, userId, useCache, limit) ==
    LET key == CacheKey(userId, limit)
        hit == CacheHit(cache, key, useCache)
    IN [userId |-> userId, useCache |-> useCache, limit |-> limit,
        now |-> IF hit THEN 0 ELSE clock, attempt |-> 0,
        lastError |-> "none",
        pc |-> IF hit THEN "returned" ELSE "query",
        result |-> IF hit THEN (CHOOSE e \in cache : e.key = key).data
                   ELSE <<>>]

\* getUserVerifications up to its first await: the cache check
GetUserVerifications(userId, useCache, limit) ==
    /\ Len(fetches) < MaxFetches
    /\ fetches' = Append(fetches,
                         CallRecord(verificationCache, userId, useCache, limit))
    /\ UNCHANGED <<verificationCache, dbVerifications, clock, nTicks>>

\* the list query of attempt fetches[f].attempt settles
QuerySettles(f, outcome) ==
    /\ fetches[f].pc = "query"
    /\ LET c == fetches[f]
           data == QueryVerifications(c.userId, c.limit)
           after == AfterAttempt(outcome, c.attempt)
       IN IF after = "return"
          THEN /\ SetFetch(f, Settle([c EXCEPT !.pc = "returned",
                                                !.lastError = "none",
                                                !.result = data]))
               /\ verificationCache' =
                    IF c.useCache
                    THEN CacheSet(verificationCache,
                                  CacheKey(c.userId, c.limit), data, c.now)
                    ELSE verificationCache
          ELSE /\ SetFetch(f, IF after = "backoff"
                     THEN [c EXCEPT !.lastError = outcome, !.pc = "backoff"]
                     ELSE Settle([c EXCEPT !.lastError = outcome,
                                           !.pc = "thrown"]))
               /\ UNCHANGED verificationCache
    /\ UNCHANGED <<dbVerifications, clock, nTicks>>

\* the setTimeout of 1000 * (attempt + 1) ms elapses, the loop continues
BackoffElapses(f) ==
    /\ fetches[f].pc = "backoff"
    /\ SetFetch(f, [fetches[f] EXCEPT !.pc = "query", !.attempt = @ + 1])
    /\ UNCHANGED <<verificationCache, dbVerifications, clock, nTicks>>

FetchNext ==
    /\ \/ \E u \in UserIds, sid \in RecordIds : SaveVerification(u, sid)
       \/ Tick
       \/ \E u \in UserIds, useCache \in BOOLEAN :
             GetUserVerifications(u, useCache, DefaultLimit)
       \/ \E f \in 1..Len(fetches), outcome \in QueryOutcomes :
             QuerySettles(f, outcome)
       \/ \E f \in 1..Len(fetches) : BackoffElapses(f)
    /\ UNCHANGED <<trackVars, pageVars>>

FetchSpec == Init /\ [][FetchNext]_vars

\* the retry loop alone: calls, their query attempts and their backoff waits
RetryNext ==
    /\ \/ \E u \in UserIds : SaveVerification(u, "r1")
       \/ \E u \in UserIds, useCache \in BOOLEAN :
             GetUserVerifications(u, useCache, DefaultLimit)
       \/ \E f \in 1..Len(fetches), outcome \in QueryOutcomes :
             QuerySettles(f, outcome)
       \/ \E f \in 1..Len(fetches) : BackoffElapses(f)
    /\ UNCHANGED <<trackVars, pageVars>>

\* a pending query settles (the request carries a 15 s abort signal) and a
\* pending backoff timer fires
RetryFairSpec ==
    /\ Init
    /\ [][RetryNext]_vars
    /\ WF_vars(/\ \E f \in 1..Len(fetches) :
                     \/ \E outcome \in QueryOutcomes : QuerySettles(f, outcome)
                     \/ BackoffElapses(f)
               /\ UNCHANGED <<trackVars, pageVars>>)

\* ------------------------------------------------------- HistoryPage model
\* the signed-in user of the page
PageUser == <<"u", "1">>

StartsWith(s, p) == Len(p) <= Len(s) /\ SubSeq(s, 1, Len(p)) = p

\* clearVerificationCache(userId): the entries whose key starts with
\* `verifications_${userId}` are deleted
ClearUserEntries(cache, userId) ==
    {e \in cache : ~StartsWith(e.key, <<"verifications_">> \o userId)}

LoadFailed == "Failed to load verification history"

\* what fetchHistory sets after getUserVerifications settled as c: the try
\* branch (the rows arrive newest first, the sort on createdAt keeps them)
\* or the catch branch
AfterFetchAsEmpty(c, shown) ==
    IF c.pc = "returned"
    THEN [history |-> c.result, error |-> NoError]
    ELSE [history |-> <<>>, error |-> NoError]

AfterFetch(c, shown) ==
    IF c.pc = "returned"
    THEN [history |-> c.result, error |-> NoError]
    ELSE [history |-> shown, error |-> LoadFailed]

\* the part of fetchHistory after "await getUserVerifications" for call f,
\* which settled in this step; its "finally" clears the loading flag
FetchHistoryResumes(f, cached) ==
    LET c == fetches'[f]
        after == AfterFetch(c, history)
    IN /\ history' = after.history
       /\ historyError' = after.error
       /\ historyLoading' = FALSE
       /\ historyFrom' = IF c.pc = "returned" THEN f ELSE historyFrom
       /\ historyFromCache' =
            IF c.pc = "returned" THEN cached ELSE historyFromCache

\* fetchHistory up to the first store query (or to its end on a cache hit)
FetchHistoryStarts(f) ==
    IF fetches'[f].pc = "returned"
    THEN FetchHistoryResumes(f, TRUE)
    ELSE /\ historyLoading' = TRUE
         /\ UNCHANGED <<history, historyError, historyFrom, historyFromCache>>

\* fetchHistory called by the mount effect, the verificationCompleted event
\* or the Try Again button
FetchHistory ==
    /\ GetUserVerifications(PageUser, TRUE, DefaultLimit)
    /\ FetchHistoryStarts(Len(fetches) + 1)
    /\ UNCHANGED historyRefresh

\* the Refresh button: clearVerificationCache(user.id), then fetchHistory()
HistoryRefresh ==
    /\ Len(fetches) < MaxFetches
    /\ LET cleared == ClearUserEntries(verificationCache, PageUser)
       IN /\ verificationCache' = cleared
          /\ fetches' = Append(fetches, CallRecord(cleared, PageUser, TRUE,
                                                   DefaultLimit))
    /\ FetchHistoryStarts(Len(fetches) + 1)
    /\ historyRefresh' = Len(fetches) + 1
    /\ UNCHANGED <<dbVerifications, clock, nTicks>>

\* a query of call f settles; when that ends the call, fetchHistory resumes
\* in the same turn of the event loop
HistoryQuerySettles(f, outcome) ==
    /\ QuerySettles(f, outcome)
    /\ IF fetches'[f].pc \in {"returned", "thrown"}
       THEN FetchHistoryResumes(f, FALSE)
       ELSE UNCHANGED <<history, historyLoading, historyError, historyFrom,
                        historyFromCache>>
    /\ UNCHANGED historyRefresh

\* what the page renders below the header
HistoryView ==
    IF historyLoading THEN "loading"
    ELSE IF historyError # NoError THEN "error"
    ELSE IF history = <<>> THEN "empty"
    ELSE "table"

HistoryNext ==
    /\ \/ \E u \in UserIds, sid \in RecordIds : SaveVerification(u, sid)
          /\ UNCHANGED historyVars
       \/ Tick /\ UNCHANGED historyVars
       \/ FetchHistory
       \/ HistoryRefresh
       \/ \E f \in 1..Len(fetches), outcome \in QueryOutcomes :
             HistoryQuerySettles(f, outcome)
       \/ \E f \in 1..Len(fetches) : BackoffElapses(f) /\ UNCHANGED historyVars
    /\ UNCHANGED <<trackVars, detailVars, restVars>>

\* ------------------------------------------- VerificationDetailPage model
\* the session of the route /history/[sessionId]
PageSession == "r1"

\* getVerificationDetails: .single() yields PGRST116 (mapped to null) unless
\* exactly one row matches; every other error is thrown
GetVerificationDetails(userId, sessionId, outcome) ==
    LET rows == {i \in 1..Len(dbVerifications) :
                    /\ dbVerifications[i].userId = userId
                    /\ dbVerifications[i].sessionId = sessionId}
    IN IF outcome # "ok" THEN [kind |-> "throw", row |-> NoRecord]
       ELSE IF Cardinality(rows) = 1
            THEN [kind |-> "record",
                  row |-> dbVerifications[CHOOSE i \in rows : TRUE]]
            ELSE [kind |-> "null", row |-> NoRecord]

\* clearVerificationCache(userId?): the three caches after the call
NoUser == <<>>

ClearVerificationCache(userId) ==
    IF userId # NoUser
    THEN [verifications |-> ClearUserEntries(verificationCache, userId),
          screenshots |-> screenshotCache,
          pdfs |-> pdfCache]
    ELSE [verifications |-> {}, screenshots |-> {}, pdfs |-> {}]

ScreenshotKey(userId, sessionId) == <<"screenshots_", userId, sessionId>>

PdfKey(userId, sessionId, filename) == <<"pdf_", userId, sessionId, filename>>

\* the cache test of getScreenshotUrls and getPdfUrl (useCache is true)
UrlCacheHit(cache, key) ==
    \E e \in cache :
        e.key = key /\ clock - e.timestamp < SIGNED_URL_CACHE_DURATION

UrlCacheGet(cache, key) == (CHOOSE e \in cache : e.key = key).data

\* the cache write that ends getScreenshotUrls (useCache is true): only a
\* list with at least one signed URL is stored
CacheScreenshotsAlways(cache, key, urls, now) ==
    {e \in cache : e.key # key}
        \cup {[key |-> key, data |-> urls, timestamp |-> now]}

CacheScreenshots(cache, key, urls, now) ==
    IF Len(urls) > 0
    THEN {e \in cache : e.key # key}
             \cup {[key |-> key, data |-> urls, timestamp |-> now]}
    ELSE cache

NotFound == "Verification record not found. Session ID"
DetailsFailed == "Failed to load verification details"

\* the end of fetchVerificationDetails: setIsInitialized(true) and
\* the setLoading(false) of "finally"
DetailEnds(err) ==
    /\ detailError' = err
    /\ isInitialized' = TRUE
    /\ detailLoading' = FALSE
    /\ detailPc' = "idle"
    /\ pdfIdx' = 0
    /\ urlNow' = 0

\* the loop over possibleFilenames from index i: getPdfUrl answers from the
\* cache (the loop breaks and the routine ends) or asks for a signed URL
PdfLoop(i, served) ==
    LET key == PdfKey(PageUser, PageSession, possibleFilenames[i])
    IN IF UrlCacheHit(pdfCache, key)
       THEN /\ pdfUrl' = UrlCacheGet(pdfCache, key)
            /\ servedKeys' = served \cup {key}
            /\ DetailEnds(NoError)
       ELSE /\ detailPc' = "pdf"
            /\ pdfIdx' = i
            /\ urlNow' = clock
            /\ servedKeys' = served
            /\ UNCHANGED <<pdfUrl, detailError, isInitialized, detailLoading>>

\* the route is opened
DetailMount ==
    /\ detailPc = "unmounted"
    /\ fetches = <<>>
    /\ detailPc' = "idle"
    /\ UNCHANGED <<record, detailScreenshots, selectedScreenshot, pdfUrl,
                   detailLoading, detailError, isInitialized, pdfIdx, urlNow,
                   detailsOutcome, screenshotCache, pdfCache, nSigned,
                   refreshedAt, filledKeys, servedKeys>>
    /\ UNCHANGED fetchVars

\* the effect on [user, sessionId, isInitialized] calls
\* fetchVerificationDetails, which runs up to "await getVerificationDetails"
FetchVerificationDetails ==
    /\ detailPc = "idle"
    /\ ~isInitialized
    /\ detailLoading' = TRUE
    /\ detailPc' = "details"
    /\ detailsOutcome' = "none"
    /\ UNCHANGED <<record, detailScreenshots, selectedScreenshot, pdfUrl,
                   detailError, isInitialized, pdfIdx, urlNow,
                   screenshotCache, pdfCache, nSigned, refreshedAt,
                   filledKeys, servedKeys>>
    /\ UNCHANGED fetchVars

\* getVerificationDetails settles; with a record the routine goes on to
\* getScreenshotUrls, whose cache check runs in the same turn
DetailsSettle(outcome) ==
    /\ detailPc = "details"
    /\ detailsOutcome' = outcome
    /\ LET r == GetVerificationDetails(PageUser, PageSession, outcome)
           key == ScreenshotKey(PageUser, PageSession)
       IN IF r.kind # "record"
          THEN /\ DetailEnds(IF r.kind = "null" THEN NotFound
                                                ELSE DetailsFailed)
               /\ UNCHANGED <<record, detailScreenshots, selectedScreenshot,
                              pdfUrl, servedKeys>>
          ELSE /\ record' = r.row
               /\ IF UrlCacheHit(screenshotCache, key)
                  THEN LET urls == UrlCacheGet(screenshotCache, key)
                       IN /\ detailScreenshots' = urls
                          /\ selectedScreenshot' =
                               IF Len(urls) > 0 THEN Head(urls)
                               ELSE selectedScreenshot
                          /\ PdfLoop(1, servedKeys \cup {key})
                  ELSE /\ detailPc' = "shots"
                       /\ urlNow' = clock
                       /\ UNCHANGED <<detailScreenshots, selectedScreenshot,
                                      pdfUrl, detailLoading, detailError,
                                      isInitialized, pdfIdx, servedKeys>>
    /\ UNCHANGED <<screenshotCache, pdfCache, nSigned, refreshedAt,
                   filledKeys>>
    /\ UNCHANGED fetchVars

\* getScreenshotUrls settles: signed URLs for the listed files ("urls"), no
\* file or no URL ("empty"), or an error of the listing ("throw")
ShotsSettle(outcome) ==
    /\ detailPc = "shots"
    /\ LET key == ScreenshotKey(PageUser, PageSession)
           urls == <<[name |-> "1.png", token |-> nSigned + 1]>>
       IN CASE outcome = "urls" ->
                 /\ nSigned < MaxSigned
                 /\ nSigned' = nSigned + 1
                 /\ screenshotCache' =
                      CacheScreenshots(screenshotCache, key, urls, urlNow)
                 /\ filledKeys' = filledKeys \cup {key}
                 /\ detailScreenshots' = urls
                 /\ selectedScreenshot' = Head(urls)
                 /\ PdfLoop(1, servedKeys)
            [] outcome = "empty" ->
                 /\ screenshotCache' =
                      CacheScreenshots(screenshotCache, key, <<>>, urlNow)
                 /\ detailScreenshots' = <<>>
                 /\ PdfLoop(1, servedKeys)
                 /\ UNCHANGED <<nSigned, filledKeys, selectedScreenshot>>
            [] outcome = "throw" ->
                 /\ detailPc' = "alt"
                 /\ urlNow' = 0
                 /\ UNCHANGED <<nSigned, screenshotCache, filledKeys,
                                detailScreenshots, selectedScreenshot,
                                pdfUrl, detailLoading, detailError,
                                isInitialized, pdfIdx, servedKeys>>
    /\ UNCHANGED <<record, pdfCache, refreshedAt, detailsOutcome>>
    /\ UNCHANGED fetchVars

\* the alternative storage path of the catch branch settles
AltSettle(found) ==
    /\ detailPc = "alt"
    /\ IF found
       THEN LET urls == <<[name |-> "1.png", token |-> nSigned + 1]>>
            IN /\ nSigned < MaxSigned
               /\ nSigned' = nSigned + 1
               /\ detailScreenshots' = urls
               /\ selectedScreenshot' = Head(urls)
       ELSE UNCHANGED <<nSigned, detailScreenshots, selectedScreenshot>>
    /\ PdfLoop(1, servedKeys)
    /\ UNCHANGED <<record, screenshotCache, pdfCache, refreshedAt,
                   filledKeys, detailsOutcome>>
    /\ UNCHANGED fetchVars

\* createSignedUrl of getPdfUrl settles for possibleFilenames[pdfIdx]
PdfSettle(ok) ==
    /\ detailPc = "pdf"
    /\ LET key == PdfKey(PageUser, PageSession, possibleFilenames[pdfIdx])
           url == [name |-> possibleFilenames[pdfIdx], token |-> nSigned + 1]
       IN IF ok
          THEN /\ nSigned < MaxSigned
               /\ nSigned' = nSigned + 1
               /\ pdfCache' = {e \in pdfCache : e.key # key}
                                 \cup {[key |-> key, data |-> url,
                                        timestamp |-> urlNow]}
               /\ filledKeys' = filledKeys \cup {key}
               /\ pdfUrl' = url
               /\ DetailEnds(NoError)
               /\ UNCHANGED servedKeys
          ELSE /\ IF pdfIdx = Len(possibleFilenames)
                  THEN DetailEnds(NoError) /\ UNCHANGED <<pdfUrl, servedKeys>>
                  ELSE PdfLoop(pdfIdx + 1, servedKeys)
               /\ UNCHANGED <<nSigned, pdfCache, filledKeys>>
    /\ UNCHANGED <<record, detailScreenshots, selectedScreenshot,
                   screenshotCache, refreshedAt, detailsOutcome>>
    /\ UNCHANGED fetchVars

\* refreshData (Refresh and Try Again; the buttons are not rendered while
\* loading): clearVerificationCache(user?.id), then the state is reset
RefreshData ==
    /\ detailPc = "idle"
    /\ ~detailLoading
    /\ LET after == ClearVerificationCache(PageUser)
       IN /\ verificationCache' = after.verifications
          /\ screenshotCache' = after.screenshots
          /\ pdfCache' = after.pdfs
    /\ isInitialized' = FALSE
    /\ record' = NoRecord
    /\ detailScreenshots' = <<>>
    /\ pdfUrl' = NoUrl
    /\ selectedScreenshot' = NoUrl
    /\ detailError' = NoError
    /\ detailLoading' = TRUE
    /\ refreshedAt' = nSigned
    /\ filledKeys' = {}
    /\ servedKeys' = {}
    /\ UNCHANGED <<detailPc, pdfIdx, urlNow, nSigned, detailsOutcome>>
    /\ UNCHANGED <<dbVerifications, fetches, clock, nTicks>>

\* Date.now() advances by half the signed URL cache duration
UrlTick ==
    /\ nTicks < MaxTicks
    /\ nTicks' = nTicks + 1
    /\ clock' = clock + UrlTickMs
    /\ UNCHANGED <<verificationCache, dbVerifications, fetches>>

\* what the detail page renders
DetailView ==
    IF detailLoading THEN "loading"
    ELSE IF detailError # NoError \/ record = NoRecord THEN "error"
    ELSE "record"

DetailMessage ==
    IF detailError # NoError THEN detailError
    ELSE "Verification record not found"

DetailNext ==
    /\ \/ DetailMount
       \/ FetchVerificationDetails
       \/ \E outcome \in QueryOutcomes : DetailsSettle(outcome)
       \/ \E outcome \in {"urls", "empty", "throw"} : ShotsSettle(outcome)
       \/ \E found \in BOOLEAN : AltSettle(found)
       \/ \E ok \in BOOLEAN : PdfSettle(ok)
       \/ RefreshData
       \/ /\ detailPc # "unmounted"
          /\ \/ \E u \in UserIds, sid \in RecordIds : SaveVerification(u, sid)
             \/ UrlTick
          /\ UNCHANGED detailVars
    /\ UNCHANGED <<trackVars, historyVars, restVars>>

\* one of the two routes is open: the list or the detail view of a record
PagesNext ==
    \/ detailPc = "unmounted" /\ HistoryNext
    \/ DetailNext

PagesSpec == Init /\ [][PagesNext]_vars

\* ------------------------------------------ status badges and statistics
\* a listed record: its status column and the success flag of its result
ListedRecords == [status : Statuses, success : BOOLEAN]

\* getStatusBadge of the history list
GetStatusBadge(r) ==
    IF r.status = "completed" /\ r.success THEN "Success"
    ELSE IF r.status = "failed" THEN "Failed"
    ELSE "Processing"

\* getStatusBadge of the detail page
GetDetailStatusBadge(r) ==
    IF r.status = "completed" /\ r.success THEN "Verification Successful"
    ELSE IF r.status = "failed" THEN "Verification Failed"
    ELSE "Status Unknown"

\* the filters of the statistics: what a record is counted as
IsSuccessful(r) == r.status = "completed" /\ r.success

IsFailed(r) == r.status = "failed" \/ (r.status = "completed" /\ ~r.success)

\* the statistics fetchHistory computes; Math.round of a non-negative ratio
HistoryStats(rs) ==
    LET total == Len(rs)
        successful == Cardinality({i \in 1..Len(rs) : IsSuccessful(rs[i])})
    IN [total |-> total,
        successful |-> successful,
        failed |-> Cardinality({i \in 1..Len(rs) : IsFailed(rs[i])}),
        errors |-> 0,
        success_rate |-> IF total > 0
                         THEN (200 * successful + total) \div (2 * total)
                         ELSE 0]

\* a fetchHistory run receives rs and stores the list and its statistics
ShowRecords(rs) ==
    /\ records' = rs
    /\ stats' = HistoryStats(rs)

BadgeNext ==
    /\ \E n \in 0..MaxListed : \E rs \in [1..n -> ListedRecords] :
          ShowRecords(rs)
    /\ UNCHANGED <<trackVars, fetchVars, historyVars, detailVars,
                   submitVars, batchVars, laterVars>>

BadgeSpec == Init /\ [][BadgeNext]_vars

\* ------------------------------------------------- form validation model
\* text values are sequences of characters
NameChars == {"A", "n", " ", "-", "'"}
DigitChars == {"0", "1", "2", "3", "4", "5", "6", "7", "8", "9"}

\* dates are whole years before "new Date()": negative is in the future
ValidForm ==
    [firstName |-> <<"A", "n", "n">>, lastName |-> <<"A", "n">>,
     middleName |-> <<>>,
     ssn |-> <<"1", "2", "3", "-", "4", "5", "-", "6", "7", "8", "9">>,
     dateOfBirth |-> 25, activeDutyDate |-> 10]

\* the forms a user submits: the valid one and forms that differ from it
Forms ==
    {ValidForm,
     [ValidForm EXCEPT !.firstName = <<>>],
     [ValidForm EXCEPT !.firstName = <<" ">>],
     [ValidForm EXCEPT !.firstName = <<" ", "A", "n", " ">>],
     [ValidForm EXCEPT !.firstName = <<"A", "1">>],
     [ValidForm EXCEPT !.lastName = <<>>],
     [ValidForm EXCEPT !.middleName = <<"A", "n">>],
     [ValidForm EXCEPT !.middleName = <<"A", "1">>],
     [ValidForm EXCEPT !.ssn = <<"1", "2", "3", "-", "4", "5">>],
     [ValidForm EXCEPT !.ssn = <<"1", "2", "3", "4", "5", "6", "7", "8", "9">>],
     [ValidForm EXCEPT !.dateOfBirth = -5],
     [ValidForm EXCEPT !.dateOfBirth = 5],
     [ValidForm EXCEPT !.dateOfBirth = 125],
     [ValidForm EXCEPT !.activeDutyDate = 30],
     [ValidForm EXCEPT !.firstName = <<>>, !.ssn = <<"1", "2">>]}

\* value.replace(/\D/g, '')
Digits(s) == SelectSeq(s, LAMBDA ch : ch \in DigitChars)

RECURSIVE TrimStart(_)
TrimStart(s) ==
    IF s # <<>> /\ Head(s) = " " THEN TrimStart(Tail(s)) ELSE s

\* String.prototype.trim
Trim(s) == Reverse(TrimStart(Reverse(TrimStart(s))))

\* nameSchema: min(1), max(50), /^[a-zA-Z\s\-']+$/
NameOk(s) ==
    /\ Len(s) >= 1
    /\ Len(s) <= 50
    /\ \A i \in 1..Len(s) : s[i] \in NameChars

\* ssnSchema: /^\d{9}$/
SsnOk(s) == Len(s) = 9 /\ \A i \in 1..Len(s) : s[i] \in DigitChars

\* formValidationSchema.parse: the fields that raise an issue; an empty
\* middle name stands for "undefined"
FormValidationSchema(data) ==
    {f \in {"firstName"} : ~NameOk(data.firstName)}
    \cup {f \in {"lastName"} : ~NameOk(data.lastName)}
    \cup {f \in {"middleName"} :
             ~(data.middleName = <<>> \/ NameOk(data.middleName))}
    \cup {f \in {"ssn"} : ~SsnOk(data.ssn)}
    \cup {f \in {"dateOfBirth"} :
             ~(/\ data.dateOfBirth >= 0
               /\ data.dateOfBirth >= 16
               /\ data.dateOfBirth <= 120)}
    \cup {f \in {"activeDutyDate"} :
             ~(data.activeDutyDate <= data.dateOfBirth)}

\* validateForm: the errors it sets; it returns true when there is none
ValidateFormSkipsSchema(form) == {}

ValidateForm(form) ==
    FormValidationSchema([form EXCEPT !.ssn = Digits(form.ssn)])

\* the request body handleSubmit builds (the dates are formatted by
\* formatDateToMMDDYYYY from the same Date values)
VerificationData(form) ==
    [firstName |-> Trim(form.firstName),
     lastName |-> Trim(form.lastName),
     middleName |-> Trim(form.middleName),
     ssn |-> Digits(form.ssn),
     dateOfBirth |-> form.dateOfBirth,
     activeDutyDate |-> form.activeDutyDate]

\* --------------------------------------------------- submit pages model
\* what POST /verify and POST /multi-record-verify answer (a
\* VerificationResponse): success, an optional sessionId, the files of
\* data.automationResult and an error text on failure
VerifyResponses ==
    {r \in [success : BOOLEAN, sessionId : SessionIds \cup {"none"},
            screenshots : BOOLEAN, pdf : BOOLEAN,
            error : {"none", "backend"}] :
        r.success <=> r.error = "none"}

\* the session ids earlier responses carried (each was handed to
\* startTracking): a session id is issued once
UsedSessionIds == {calls[c].sid : c \in 1..Len(calls)}

\* the result the outer catch of handleSubmit sets
ThrownResult == [success |-> FALSE, sessionId |-> "none",
                 screenshots |-> FALSE, pdf |-> FALSE, error |-> "thrown"]

\* the result handleSubmit sets after an upload threw: the inner catch
\* swallows the error and the response is set
AfterUploadFailureEscapes(response) == ThrownResult

AfterUploadFailure(response) == response

SetSubmit(c, rec) == submits' = [submits EXCEPT ![c] = rec]

\* the effect of the single-record page that runs when result changes: a
\* result with a sessionId is written to localStorage as the verification
\* state
SavedAfter(res) ==
    IF route = "single" /\ res.sessionId # "none" THEN res ELSE savedState

\* the effect of the single-record page that runs when result is null: the
\* saved verification state, if there is one, is put back as the result
RestoredResult == IF savedState # NoResult THEN savedState ELSE NoResult

\* setResult(...) and setIsSubmitting(false) at the end of handleSubmit; the
\* routine's locals (form data, request, response) are gone when it returns
SubmitEnds(c, rec, res) ==
    /\ SetSubmit(c, [rec EXCEPT !.pc = "done", !.form = <<>>, !.sent = <<>>,
                              !.response = NoResponse])
    /\ result' = res
    /\ savedState' = SavedAfter(res)
    /\ isSubmitting' = FALSE

\* the single-record page or the batch page is opened
OpenPage(r) ==
    /\ route = "none"
    /\ route' = r
    /\ UNCHANGED <<isSubmitting, result, currentJobId, errors, showSettings,
                   submits, savedState>>
    /\ UNCHANGED <<trackVars, fetchVars, batchVars>>

\* handleSubmit of the single-record page up to "await verifyActiveDuty",
\* with the restore effect that setResult(null) triggers: it puts the saved
\* state back and calls startTracking for its session
HandleSubmit(form, credentials, isDevMode) ==
    /\ route = "single"
    /\ ~isSubmitting
    /\ Len(submits) < MaxSubmits
    /\ errors' = ValidateForm(form)
    /\ IF ValidateForm(form) # {}
       THEN /\ UNCHANGED <<isSubmitting, result, currentJobId, showSettings,
                           submits>>
            /\ UNCHANGED trackVars
       ELSE IF ~credentials /\ ~isDevMode
            THEN /\ showSettings' = TRUE
                 /\ UNCHANGED <<isSubmitting, result, currentJobId, submits>>
                 /\ UNCHANGED trackVars
            ELSE /\ isSubmitting' = TRUE
                 /\ result' = RestoredResult
                 /\ IF RestoredResult.sessionId # "none"
                    THEN StartTracking(RestoredResult.sessionId)
                    ELSE UNCHANGED trackVars
                 /\ currentJobId' = "none"
                 /\ submits' = Append(submits,
                       [page |-> "single", pc |-> "verify", form |-> form,
                        sent |-> VerificationData(form),
                        response |-> NoResponse, uploadFailed |-> FALSE])
                 /\ UNCHANGED showSettings
    /\ UNCHANGED <<route, savedState>>
    /\ UNCHANGED <<fetchVars, batchVars>>

\* the guards of the batch handleSubmit
CanSubmitBatch(v, content) == v.valid /\ content # <<>>

\* handleSubmit of the batch page up to "await verifyMultipleRecords"
HandleSubmitBatch ==
    /\ route = "batch"
    /\ ~isSubmitting
    /\ Len(submits) < MaxSubmits
    /\ CanSubmitBatch(validation, fixedWidthContent)
    /\ isSubmitting' = TRUE
    /\ result' = NoResult
    /\ submits' = Append(submits,
          [page |-> "batch", pc |-> "verify", form |-> <<>>,
           sent |-> fixedWidthContent,
           response |-> NoResponse, uploadFailed |-> FALSE])
    /\ UNCHANGED <<route, currentJobId, errors, showSettings, savedState>>
    /\ UNCHANGED <<trackVars, fetchVars, batchVars>>

\* the verify request of run c fails (network error or HTTP status not ok):
\* the outer catch
VerifyThrows(c) ==
    /\ submits[c].pc = "verify"
    /\ SubmitEnds(c, submits[c], ThrownResult)
    /\ currentJobId' = "none"
    /\ UNCHANGED <<route, errors, showSettings>>
    /\ UNCHANGED <<trackVars, fetchVars, batchVars>>

\* the verify request of run c is answered with r
VerifyResponds(c, r) ==
    /\ submits[c].pc = "verify"
    /\ r.sessionId \notin UsedSessionIds
    /\ LET rec == [submits[c] EXCEPT !.response = r]
       IN IF r.success /\ r.sessionId # "none"
          THEN /\ StartTracking(r.sessionId)
               /\ currentJobId' = IF rec.page = "single" THEN r.sessionId
                                  ELSE currentJobId
               /\ IF r.screenshots \/ r.pdf
                  THEN /\ SetSubmit(c, [rec EXCEPT !.pc =
                            IF r.screenshots THEN "uploadScreenshots"
                            ELSE "uploadPdf"])
                       /\ UNCHANGED <<result, isSubmitting, savedState>>
                  ELSE IF rec.page = "single"
                       THEN /\ SetSubmit(c, [rec EXCEPT !.pc = "save"])
                            /\ UNCHANGED <<result, isSubmitting, savedState>>
                       ELSE SubmitEnds(c, rec, r)
          ELSE /\ SubmitEnds(c, rec, r)
               /\ UNCHANGED currentJobId
               /\ UNCHANGED trackVars
    /\ UNCHANGED <<route, errors, showSettings>>
    /\ UNCHANGED <<fetchVars, batchVars>>

\* uploadScreenshotsToSupabase or uploadPdfToSupabase of run c settles; a
\* failure is thrown into the inner catch, which skips the rest of the try
UploadSettles(c, ok) ==
    /\ submits[c].pc \in {"uploadScreenshots", "uploadPdf"}
    /\ LET rec == submits[c]
       IN IF ok
          THEN /\ SetSubmit(c, [rec EXCEPT !.pc =
                    IF rec.pc = "uploadScreenshots" /\ rec.response.pdf
                    THEN "uploadPdf"
                    ELSE IF rec.page = "single" THEN "save" ELSE "notify"])
               /\ UNCHANGED <<result, isSubmitting, savedState>>
          ELSE SubmitEnds(c, [rec EXCEPT !.uploadFailed = TRUE],
                          AfterUploadFailure(rec.response))
    /\ UNCHANGED <<route, currentJobId, errors, showSettings>>
    /\ UNCHANGED <<trackVars, fetchVars, batchVars>>

\* saveVerificationToSupabase of the single-record page settles: the insert
\* is made or its error is swallowed; with files the routine goes on to the
\* upload notification
SaveSettles(c, ok) ==
    /\ submits[c].pc = "save"
    /\ IF ok
       THEN SaveVerification(PageUser, submits[c].response.sessionId)
       ELSE UNCHANGED fetchVars
    /\ LET rec == submits[c]
       IN IF rec.response.screenshots \/ rec.response.pdf
          THEN /\ SetSubmit(c, [rec EXCEPT !.pc = "notify"])
               /\ UNCHANGED <<result, isSubmitting, savedState>>
          ELSE SubmitEnds(c, rec, rec.response)
    /\ UNCHANGED <<route, currentJobId, errors, showSettings>>
    /\ UNCHANGED <<trackVars, batchVars>>

\* the POST /verification/{sessionId}/uploaded settles (errors are swallowed)
NotifySettles(c) ==
    /\ submits[c].pc = "notify"
    /\ SubmitEnds(c, submits[c], submits[c].response)
    /\ UNCHANGED <<route, currentJobId, errors, showSettings>>
    /\ UNCHANGED <<trackVars, fetchVars, batchVars>>

\* ------------------------------------------------------ batch page model
\* the fixed-width encoding of a file: one line per row
Encode(file) ==
    [i \in 1..(IF file = "f1" THEN 1 ELSE 2) |-> [file |-> file, row |-> i]]

\* what POST /csv-to-fixed-width answers for a file
HttpResponses(file) ==
    {h \in [ok : BOOLEAN, json : BOOLEAN, validation_errors : BOOLEAN,
            error_count : {0, 1}, text : {<<>>, Encode(file)}] :
        /\ (h.ok /\ ~h.json) => ~h.validation_errors /\ h.error_count = 0
        /\ ~(h.ok /\ ~h.json) => h.text = <<>>
        /\ ~h.validation_errors => h.error_count = 0}

ConversionThrown == [kind |-> "throw", success |-> FALSE,
                     fixed_width_content |-> <<>>,
                     validation_errors |-> FALSE, error_count |-> 0]

\* backendAPI.convertCSVToFixedWidth on the HTTP answer h; a result without
\* fixed_width_content has the empty content, and the list of validation
\* errors, when there is one, has one entry (its length stands in for a
\* missing error_count)
ConvertCSVToFixedWidth(h) ==
    IF ~h.ok
    THEN IF h.validation_errors
         THEN [kind |-> "result", success |-> FALSE,
               fixed_width_content |-> <<>>, validation_errors |-> TRUE,
               error_count |-> IF h.error_count # 0 THEN h.error_count ELSE 1]
         ELSE ConversionThrown
    ELSE IF h.json
         THEN [kind |-> "result", success |-> FALSE,
               fixed_width_content |-> <<>>,
               validation_errors |-> h.validation_errors,
               error_count |-> h.error_count]
         ELSE [kind |-> "result", success |-> TRUE,
               fixed_width_content |-> h.text, validation_errors |-> FALSE,
               error_count |-> 0]

\* what convertAndValidateCSV stores for the conversion result r
AfterConvertKeepsContent(r, content) ==
    IF r.kind = "result" /\ r.success /\ r.fixed_width_content # <<>>
    THEN [validation |-> [valid |-> TRUE,
                          record_count |-> Len(r.fixed_width_content),
                          error_count |-> 0,
                          total_records |-> Len(r.fixed_width_content)],
          content |-> r.fixed_width_content]
    ELSE [validation |-> [valid |-> FALSE, record_count |-> 0,
                          error_count |-> IF r.error_count # 0
                                          THEN r.error_count ELSE 1,
                          total_records |-> 0],
          content |-> content]

AfterConvert(r, content) ==
    IF r.kind = "result" /\ r.success /\ r.fixed_width_content # <<>>
    THEN [validation |-> [valid |-> TRUE,
                          record_count |-> Len(r.fixed_width_content),
                          error_count |-> 0,
                          total_records |-> Len(r.fixed_width_content)],
          content |-> r.fixed_width_content]
    ELSE [validation |-> [valid |-> FALSE, record_count |-> 0,
                          error_count |-> IF r.error_count # 0
                                          THEN r.error_count ELSE 1,
                          total_records |-> 0],
          content |-> <<>>]

\* handleFileSelect for a .csv file of at most 5 MB, up to
\* "await backendAPI.convertCSVToFixedWidth"
HandleFileSelect(file) ==
    /\ route = "batch"
    /\ Len(conversions) < MaxConversions
    /\ csvFile' = file
    /\ isValidating' = TRUE
    /\ conversions' = Append(conversions,
          [file |-> file, pc |-> "convert"])
    /\ UNCHANGED <<fixedWidthContent, validation, converted>>
    /\ UNCHANGED <<trackVars, fetchVars, submitVars>>

\* the conversion request of run k settles with r
ConvertEnds(k, r) ==
    /\ conversions' = [conversions EXCEPT ![k] =
                          [file |-> "none", pc |-> "done"]]
    /\ converted' = r
    /\ validation' = AfterConvert(r, fixedWidthContent).validation
    /\ fixedWidthContent' = AfterConvert(r, fixedWidthContent).content
    /\ isValidating' = FALSE
    /\ UNCHANGED csvFile
    /\ UNCHANGED <<trackVars, fetchVars, submitVars>>

ConvertSettles(k, h) ==
    /\ conversions[k].pc = "convert"
    /\ ConvertEnds(k, ConvertCSVToFixedWidth(h))

\* fetch rejects: the request never got an answer
ConvertFails(k) ==
    /\ conversions[k].pc = "convert"
    /\ ConvertEnds(k, ConversionThrown)

\* clearForm of the open page (the button is disabled while submitting)
ClearForm ==
    /\ route \in {"single", "batch"}
    /\ ~isSubmitting
    /\ result' = NoResult
    /\ IF route = "single"
       THEN /\ errors' = {}
            /\ currentJobId' = "none"
            /\ savedState' = NoResult
            /\ UNCHANGED batchVars
       ELSE /\ csvFile' = "none"
            /\ fixedWidthContent' = <<>>
            /\ validation' = NoValidation
            /\ UNCHANGED <<errors, currentJobId, isValidating, conversions,
                           converted, savedState>>
    /\ StopTracking
    /\ UNCHANGED <<route, isSubmitting, showSettings, submits>>
    /\ UNCHANGED fetchVars

SubmitNext ==
    /\ \/ \E r \in {"single", "batch"} : OpenPage(r)
       \/ \E form \in Forms, credentials \in BOOLEAN, isDevMode \in BOOLEAN :
             HandleSubmit(form, credentials, isDevMode)
       \/ HandleSubmitBatch
       \/ \E c \in 1..Len(submits) : VerifyThrows(c)
       \/ \E c \in 1..Len(submits), r \in VerifyResponses :
             VerifyResponds(c, r)
       \/ \E c \in 1..Len(submits), ok \in BOOLEAN : UploadSettles(c, ok)
       \/ \E c \in 1..Len(submits), ok \in BOOLEAN : SaveSettles(c, ok)
       \/ \E c \in 1..Len(submits) : NotifySettles(c)
       \/ \E file \in Files : HandleFileSelect(file)
       \/ \E k \in 1..Len(conversions) :
             \E h \in HttpResponses(conversions[k].file) : ConvertSettles(k, h)
       \/ \E k \in 1..Len(conversions) : ConvertFails(k)
       \/ ClearForm
    /\ UNCHANGED <<historyVars, detailVars, badgeVars, laterVars>>

SubmitSpec == Init /\ [][SubmitNext]_vars

\* ------------------------------------------- Automation State Machine model
MachineStates == <<"START", "AGREEMENT_ACCEPTED", "AUTHENTICATED",
                   "FORM_NAVIGATED", "DATA_ENTERED", "SUBMITTED",
                   "RESULT_CAPTURED", "COMPLETED">>

StateIndex(st) == CHOOSE i \in 1..Len(MachineStates) : MachineStates[i] = st

Running(st) == st \notin {"IDLE", "COMPLETED", "FAILED"}

\* the progress the session row shows once state st is reached (three
\* reporting phases, the last one reached with the captured result)
StepProgress(st) ==
    IF StateIndex(st) <= 3 THEN 33
    ELSE IF StateIndex(st) <= 6 THEN 66
    ELSE 100

\* the session row the machine writes on reaching state st
FinalizeLeavesInProgress(row, st) ==
    IF st = "COMPLETED" THEN Row(row.session_id, "completed", 100)
    ELSE IF st = "FAILED" /\ row.progress < 66
         THEN Row(row.session_id, "failed", row.progress)
    ELSE IF st = "FAILED" THEN row
    ELSE Row(row.session_id, "in_progress", StepProgress(st))

RowAt(row, st) ==
    IF st = "COMPLETED" THEN Row(row.session_id, "completed", 100)
    ELSE IF st = "FAILED" THEN Row(row.session_id, "failed", row.progress)
    ELSE Row(row.session_id, "in_progress", StepProgress(st))

\* the machine of session sid moves to state st; no channel is subscribed
\* while only the automation runs
MoveTo(sid, st) ==
    /\ machine' = [machine EXCEPT ![sid] =
                      [state |-> st, retries |-> 0, returned |-> FALSE]]
    /\ dbSessions' = [dbSessions EXCEPT ![sid] = RowAt(@, st)]
    /\ UNCHANGED <<session, screenshots, loading, error, subscriptionsRef,
                   calls, subs, urlPending, dbScreenshots, tracked,
                   lastUpdate, nStops, nCommits, nReplays, nChannelErrors>>

\* the driving routine is started for a session (each session_id once)
Drive(sid) ==
    /\ machine[sid].state = "IDLE"
    /\ MoveTo(sid, "START")

\* the transition out of the current state succeeds
StepSucceeds(sid) ==
    /\ Running(machine[sid].state)
    /\ MoveTo(sid, MachineStates[StateIndex(machine[sid].state) + 1])

\* a transient error at the current step: retried in place up to the cap,
\* then the step fails
StepTransientError(sid) ==
    /\ Running(machine[sid].state)
    /\ IF machine[sid].retries < MaxStepRetries
       THEN /\ machine' = [machine EXCEPT ![sid].retries = @ + 1]
            /\ UNCHANGED trackVars
       ELSE MoveTo(sid, "FAILED")

\* every interaction-locating strategy of the current step is exhausted
StepFails(sid) ==
    /\ Running(machine[sid].state)
    /\ MoveTo(sid, "FAILED")

\* the portal answers the login with bad credentials: fatal, no retry
BadCredentials(sid) ==
    /\ machine[sid].state = "AGREEMENT_ACCEPTED"
    /\ MoveTo(sid, "FAILED")

\* the driving routine returns
Return(sid) ==
    /\ machine[sid].state \in {"COMPLETED", "FAILED"}
    /\ ~machine[sid].returned
    /\ machine' = [machine EXCEPT ![sid].returned = TRUE]
    /\ UNCHANGED trackVars

AutomationNext ==
    /\ \E sid \in SessionIds :
          \/ Drive(sid)
          \/ StepSucceeds(sid)
          \/ StepTransientError(sid)
          \/ StepFails(sid)
          \/ BadCredentials(sid)
          \/ Return(sid)
    /\ UNCHANGED <<fetchVars, historyVars, detailVars, badgeVars, submitVars,
                   batchVars, deleteVars, pollVars, dateVars>>

AutomationSpec == Init /\ [][AutomationNext]_vars

\* --------------------------------------------------- deleteVerification
\* the store executes the list query of call f: the rows it answers with are
\* those of this moment; the answer is on its way to the client
QueryAnswered(f) ==
    /\ fetches[f].pc = "query"
    /\ SetFetch(f, [fetches[f] EXCEPT !.pc = "response",
                       !.result = QueryVerifications(fetches[f].userId,
                                                     fetches[f].limit)])
    /\ UNCHANGED <<verificationCache, dbVerifications, clock, nTicks>>

\* the answer reaches getUserVerifications: it stores the rows in the cache
\* and returns them
ResponseArrives(f) ==
    /\ fetches[f].pc = "response"
    /\ AfterAttempt("ok", fetches[f].attempt) = "return"
    /\ LET c == fetches[f]
       IN /\ SetFetch(f, Settle([c EXCEPT !.pc = "returned",
                                         !.lastError = "none"]))
          /\ verificationCache' =
               IF c.useCache
               THEN CacheSet(verificationCache, CacheKey(c.userId, c.limit),
                             c.result, c.now)
               ELSE verificationCache
    /\ UNCHANGED <<dbVerifications, clock, nTicks>>

\* .delete().eq('session_id', sessionId).eq('user_id', userId)
DeleteRows(rows, sessionId, userId) ==
    SelectSeq(rows, LAMBDA r : ~(r.sessionId = sessionId /\ r.userId = userId))

\* deleteVerification up to its await
DeleteVerification(sessionId, userId) ==
    /\ Len(deletes) < MaxDeletes
    /\ deletes' = Append(deletes, [sessionId |-> sessionId, userId |-> userId,
                                   pc |-> "delete", error |-> FALSE,
                                   fetchesBefore |-> 0])
    /\ UNCHANGED fetchVars

\* the store executes the delete request of call d, or rejects it
DeleteExecutes(d, ok) ==
    /\ deletes[d].pc = "delete"
    /\ deletes' = [deletes EXCEPT ![d].pc = "response", ![d].error = ~ok]
    /\ dbVerifications' =
         IF ok THEN DeleteRows(dbVerifications, deletes[d].sessionId,
                               deletes[d].userId)
         ELSE dbVerifications
    /\ UNCHANGED <<verificationCache, fetches, clock, nTicks>>

\* deleteVerification resumes: it throws the error, or clears the caches of
\* the user (fetchesBefore: the getUserVerifications calls made so far)
DeleteSettles(d) ==
    /\ deletes[d].pc = "response"
    /\ deletes' = [deletes EXCEPT
                     ![d].pc = IF deletes[d].error THEN "thrown" ELSE "done",
                     ![d].fetchesBefore = Len(fetches)]
    /\ verificationCache' =
         IF deletes[d].error THEN verificationCache
         ELSE ClearUserEntries(verificationCache, deletes[d].userId)
    /\ UNCHANGED <<dbVerifications, fetches, clock, nTicks>>

DeleteNext ==
    /\ \/ /\ deletes = <<>>
          /\ \E u \in UserIds : SaveVerification(u, "r1")
          /\ UNCHANGED deleteVars
       \/ /\ \E u \in UserIds, useCache \in BOOLEAN :
                GetUserVerifications(u, useCache, DefaultLimit)
          /\ UNCHANGED deleteVars
       \/ /\ \E f \in 1..Len(fetches), outcome \in QueryOutcomes :
                QuerySettles(f, outcome)
          /\ UNCHANGED deleteVars
       \/ /\ \E f \in 1..Len(fetches) : BackoffElapses(f)
          /\ UNCHANGED deleteVars
       \/ /\ \E f \in 1..Len(fetches) : QueryAnswered(f)
          /\ UNCHANGED deleteVars
       \/ /\ \E f \in 1..Len(fetches) : ResponseArrives(f)
          /\ UNCHANGED deleteVars
       \/ \E sid \in RecordIds, u \in UserIds : DeleteVerification(sid, u)
       \/ \E d \in 1..Len(deletes), ok \in BOOLEAN : DeleteExecutes(d, ok)
       \/ \E d \in 1..Len(deletes) : DeleteSettles(d)
    /\ UNCHANGED <<trackVars, historyVars, detailVars, badgeVars, submitVars,
                   batchVars, autoVars, pollVars, dateVars>>

DeleteSpec == Init /\ [][DeleteNext]_vars

\* ---------------------------------------------------- useSessionStatus
ActiveStatuses == {"pending", "in_progress"}

TerminalStatuses == {"completed", "failed"}

\* pollStatus up to "await backendAPI.getSessionStatus"
PollStatus(ps, by) == Append(ps, [pc |-> "sent", answer |-> "none", by |-> by])

Without(ps, i) == SubSeq(ps, 1, i - 1) \o SubSeq(ps, i + 1, Len(ps))

\* the interval callback of the mounted effect: it polls while the status
\* the effect was created with is an active one
IntervalPolls(effectStatus) == effectStatus \in ActiveStatuses

\* the component is given a session id: the effect runs, makes the initial
\* fetch and sets the interval
UseSessionStatus(sid) ==
    /\ hook.sessionId = "none"
    /\ hook' = [hook EXCEPT !.sessionId = sid, !.isLoading = TRUE,
                            !.effectStatus = hook.status]
    /\ polls' = PollStatus(polls, "effect")
    /\ UNCHANGED <<backendStatus, nPollFailures>>

\* the backend answers request i with the status it holds
GetSessionStatus(i) ==
    /\ polls[i].pc = "sent"
    /\ polls' = [polls EXCEPT ![i].pc = "answered", ![i].answer = backendStatus]
    /\ UNCHANGED <<hook, backendStatus, nPollFailures>>

\* the answer of request i arrives: setStatus, setError(null), finally; when
\* status.status changed the effect runs again (interval replaced, one more
\* initial fetch)
StatusArrives(i) ==
    /\ polls[i].pc = "answered"
    /\ LET st == polls[i].answer
           rerun == st # hook.status
       IN /\ hook' = [hook EXCEPT !.status = st, !.error = FALSE,
                                  !.isLoading = rerun,
                                  !.effectStatus = st]
          /\ polls' = IF rerun THEN PollStatus(Without(polls, i), "effect")
                      ELSE Without(polls, i)
    /\ UNCHANGED <<backendStatus, nPollFailures>>

\* request i fails (fetch rejects or the HTTP status is not ok): catch, finally
GetSessionStatusFails(i) ==
    /\ nPollFailures < MaxPollFailures
    /\ nPollFailures' = nPollFailures + 1
    /\ hook' = [hook EXCEPT !.error = TRUE, !.isLoading = FALSE]
    /\ polls' = Without(polls, i)
    /\ UNCHANGED backendStatus

\* two seconds have passed on the interval of the mounted effect
IntervalFires ==
    /\ hook.sessionId # "none"
    /\ Len(polls) < MaxInFlight
    /\ IntervalPolls(hook.effectStatus)
    /\ hook' = [hook EXCEPT !.isLoading = TRUE]
    /\ polls' = PollStatus(polls, "interval")
    /\ UNCHANGED <<backendStatus, nPollFailures>>

\* the automation moves the session on
BackendAdvances(st) ==
    /\ \/ backendStatus = "pending" /\ st = "in_progress"
       \/ backendStatus = "in_progress" /\ st \in TerminalStatuses
    /\ backendStatus' = st
    /\ UNCHANGED <<hook, polls, nPollFailures>>

\* the hook touches nothing outside its own state
PollFrame ==
    UNCHANGED <<trackVars, fetchVars, historyVars, detailVars, badgeVars,
                submitVars, batchVars, autoVars, deleteVars, dateVars>>

PollNext ==
    /\ \/ \E sid \in SessionIds : UseSessionStatus(sid)
       \/ \E i \in 1..Len(polls) : GetSessionStatus(i)
       \/ \E i \in 1..Len(polls) : StatusArrives(i)
       \/ \E i \in 1..Len(polls) : GetSessionStatusFails(i)
       \/ IntervalFires
       \/ \E st \in TerminalStatuses \cup {"in_progress"} : BackendAdvances(st)
    /\ PollFrame

\* every request is answered and its answer arrives, the timer keeps firing
\* and the automation finishes; only MaxPollFailures requests fail
PollFairSpec ==
    /\ Init
    /\ [][PollNext]_vars
    /\ WF_vars((\E i \in 1..Len(polls) : GetSessionStatus(i)) /\ PollFrame)
    /\ WF_vars((\E i \in 1..Len(polls) : StatusArrives(i)) /\ PollFrame)
    /\ WF_vars(IntervalFires /\ PollFrame)
    /\ WF_vars((\E st \in TerminalStatuses \cup {"in_progress"} :
                   BackendAdvances(st)) /\ PollFrame)

\* ------------------------------------------- date inputs of the form
\* onChange of a date input: the input hands over the picked date as
\* "YYYY-MM-DD" and the handler stores new Date(e.target.value)
HandleDateChange(field, picked) ==
    /\ formDates' = [formDates EXCEPT
                       ![field] = NewDate(<<picked.year, picked.month,
                                            picked.day>>)]
    /\ pickedDates' = [pickedDates EXCEPT ![field] = picked]
    /\ UNCHANGED <<timezoneOffset, sentDates>>

\* the value each date input displays
DisplayedDate(field) == formatDateToISO(formDates[field])

\* handleSubmit builds the request body
BuildVerificationData ==
    /\ sentDates' = [f \in DateFields |->
                       formatDateToMMDDYYYY(formDates[f], timezoneOffset)]
    /\ UNCHANGED <<timezoneOffset, formDates, pickedDates>>

DateNext ==
    /\ \/ \E f \in DateFields, picked \in PickableDates :
             HandleDateChange(f, picked)
       \/ BuildVerificationData
    /\ UNCHANGED <<trackVars, fetchVars, historyVars, detailVars, badgeVars,
                   submitVars, batchVars, autoVars, deleteVars, pollVars>>

\* the page in a browser of any time zone
AnyZoneInit ==
    TrackInit /\ FetchInit /\ PageInit /\ DateInitIn(TimezoneOffsets)

DateSpec == AnyZoneInit /\ [][DateNext]_vars

\* ------------------------------------------------------------ properties
Settled == \A c \in 1..Len(calls) : calls[c].pc \in {"done", "failed"}

Active(s) == subs[s].state # "closed"

\* C1: once a startTracking call for a new session has completed, the only
\* active subscriptions created by the facade are those of the session that
\* is tracked now (the subscriptions of the old session were unsubscribed).
C1_NoListenerLeak ==
    (/\ Settled
     /\ nStops = 0
     /\ subscriptionsRef # {}
     /\ \A s \in subscriptionsRef : subs[s].sid = tracked)
        => \A s \in 1..Len(subs) : Active(s) => subs[s].sid = tracked

\* C2: after stopTracking, and until startTracking is invoked again, every
\* subscription created by the facade is unsubscribed and session,
\* screenshots and error stay cleared, whatever was in flight at the stop.
C2_StopClearsAndStaysCleared ==
    (nStops > 0 /\ tracked = NoTracked)
        => /\ \A s \in 1..Len(subs) : ~Active(s)
           /\ session = NoSession
           /\ screenshots = <<>>
           /\ error = NoError

\* C3: the observed screenshot list holds at most one entry for any
\* screenshot id, for every order of snapshot loads, insert events and
\* replayed insert events.
C3_OneEntryPerId ==
    \A i, j \in 1..Len(screenshots) :
        screenshots[i].id = screenshots[j].id => i = j

C3_Witness ==
    /\ nReplays > 0
    /\ urlPending = <<>>
    /\ \A s \in 1..Len(subs) : subs[s].queue = <<>>
    /\ Len(screenshots) = 2

\* C4: a session row update committed after startTracking was invoked is
\* reflected in the observed session: once the only startTracking call has
\* settled with its subscriptions and the change feed has nothing left to
\* deliver, the observed session is the stored row.
C4_NoMutationLost ==
    (/\ Len(calls) = 1
     /\ calls[1].pc = "done"
     /\ nStops = 0
     /\ \A s \in 1..Len(subs) : subs[s].state = "joined" /\ subs[s].queue = <<>>)
        => session = dbSessions[tracked]

C6_ChannelErrorSetsError ==
    [][\A s \in 1..Len(subs) :
          (subs[s].state = "joined" /\ subs'[s].state = "errored")
              => error' # NoError]_vars

C8_ProgressNeverDecreases ==
    [][(/\ session # NoSession
        /\ session' # NoSession
        /\ session.session_id = session'.session_id)
          => session'.progress >= session.progress]_vars

\* C9: while one session id is observed, the observed status never goes from
\* a terminal status to another status.
C9_TerminalNeverReverts ==
    [][(/\ session.status \in Terminal
        /\ session' # NoSession
        /\ session.session_id = session'.session_id)
          => session'.status = session.status]_vars

\* C10: a query error that is not of the timeout class surfaces to the caller
\* right after the attempt that met it: the call throws without a backoff
\* wait and without another query attempt.
C10_NonTimeoutErrorNotRetried ==
    [][\A f \in 1..Len(fetches) :
          (/\ fetches[f].pc = "query"
           /\ fetches'[f].pc \in {"backoff", "thrown"}
           /\ fetches'[f].lastError = "other")
              => fetches'[f].pc = "thrown"]_vars

FetchSettled(f) == fetches[f].pc \in {"returned", "thrown"}

\* C11: every getUserVerifications call terminates after at most 3 query
\* attempts: the attempt index never exceeds maxRetries, a call throws only
\* when the attempt with index maxRetries failed and then throws that error,
\* a call that returns after a query returns the rows of that query, and
\* the calls in flight have eventually all returned or thrown.
C11_TerminatesWithinThreeAttempts ==
    /\ [](\A f \in 1..Len(fetches) : fetches[f].attempt <= maxRetries)
    /\ [][\A f \in 1..Len(fetches) :
            /\ (fetches[f].pc = "query" /\ fetches'[f].pc = "thrown")
                  => /\ fetches[f].attempt = maxRetries
                     /\ fetches'[f].lastError \in QueryOutcomes \ {"ok"}
            /\ (fetches[f].pc = "query" /\ fetches'[f].pc = "returned")
                  => fetches'[f].result =
                       QueryVerifications(fetches[f].userId, fetches[f].limit)
            /\ (fetches[f].pc = "query" /\ fetches[f].attempt = maxRetries)
                  => fetches'[f].pc \in {"query", "returned", "thrown"}]_vars
    /\ (\E f \in 1..Len(fetches) : ~FetchSettled(f))
          ~> (\A f \in 1..Len(fetches) : FetchSettled(f))

C11_Witness ==
    \E f \in 1..Len(fetches) :
        /\ fetches[f].pc = "thrown"
        /\ fetches[f].lastError = "timeout"
        /\ \E g \in 1..Len(fetches) :
              fetches[g].pc = "returned" /\ fetches[g].result # <<>>

\* C12: a store read that fails with a timeout-class error is never shown as
\* an empty or not-found result: when getUserVerifications gives up on a
\* timeout the history page renders its error branch, a list the call
\* returns is the row list of a query, and when getVerificationDetails
\* fails on a timeout the detail page shows the load-failure message.
C12_TimeoutNeverShownAsEmpty ==
    [][/\ \A f \in 1..Len(fetches) :
            /\ (/\ fetches[f].pc = "query"
                /\ fetches'[f].pc = "thrown"
                /\ fetches'[f].lastError = "timeout")
                  => HistoryView' = "error"
            /\ (fetches[f].pc = "query" /\ fetches'[f].pc = "returned")
                  => fetches'[f].result =
                       QueryVerifications(fetches[f].userId, fetches[f].limit)
       /\ (detailPc = "details" /\ detailsOutcome' = "timeout")
             => /\ DetailView' = "error"
                /\ DetailMessage' = DetailsFailed]_vars

C12_Witness ==
    /\ \E f \in 1..Len(fetches) :
          fetches[f].pc = "thrown" /\ fetches[f].lastError = "timeout"
    /\ HistoryView = "error"
    /\ history = <<>>
    /\ QueryVerifications(PageUser, DefaultLimit) # <<>>

\* C13: a signed URL request that follows an explicit cache-clear performs a
\* new resolution: a cache key is answered from the cache only when a
\* resolution has filled its entry since the last clearVerificationCache.
C13_ClearForcesNewResolution == servedKeys \subseteq filledKeys

\* C14: after refreshData the screenshot URLs and the PDF URL shown once the
\* details are loaded again come from resolutions made after the refresh.
C14_RefreshShowsNewUrls ==
    (refreshedAt >= 0 /\ detailPc = "idle" /\ isInitialized)
        => /\ pdfUrl # NoUrl => pdfUrl.token > refreshedAt
           /\ \A i \in 1..Len(detailScreenshots) :
                 detailScreenshots[i].token > refreshedAt

\* C15: after a Refresh click on the history page, the records displayed
\* once loading has ended come from a getUserVerifications call started by
\* that click or later and were not served by the cache.
C15_RefreshShowsNewQuery ==
    (historyRefresh > 0 /\ ~historyLoading /\ historyError = NoError)
        => historyFrom >= historyRefresh /\ ~historyFromCache

\* C16: every listed record carries the badge of its class on the list and on
\* the detail page (processing: status in_progress; success: completed with
\* result.success; failure: completed without it, or failed), and the failed
\* and successful statistics count exactly the records whose badge says so.
C16_BadgeAgreesWithStats ==
    LET PresentedAs(r) ==
            IF r.status = "in_progress" THEN "processing"
            ELSE IF r.status = "completed" /\ r.success THEN "success"
            ELSE "failure"
    IN /\ \A i \in 1..Len(records) :
             LET r == records[i]
             IN /\ GetStatusBadge(r) =
                     (CASE PresentedAs(r) = "processing" -> "Processing"
                        [] PresentedAs(r) = "success" -> "Success"
                        [] PresentedAs(r) = "failure" -> "Failed")
                /\ GetDetailStatusBadge(r) =
                     (CASE PresentedAs(r) = "processing" -> "Status Unknown"
                        [] PresentedAs(r) = "success" ->
                             "Verification Successful"
                        [] PresentedAs(r) = "failure" ->
                             "Verification Failed")
       /\ stats.failed =
             Cardinality({i \in 1..Len(records) :
                             GetStatusBadge(records[i]) = "Failed"})
       /\ stats.successful =
             Cardinality({i \in 1..Len(records) :
                             GetStatusBadge(records[i]) = "Success"})

\* a step in which handleSubmit run c returns
SubmitReturns(c) ==
    /\ submits[c].pc # "done"
    /\ submits'[c].pc = "done"

\* C17: every successful single-record verification response that carries a
\* sessionId leads to exactly one insert of a record for that sessionId,
\* whatever the uploads do: a single-record run whose response has success
\* and a sessionId returns only after its saveVerificationToSupabase call,
\* and a step changes the verifications table only by appending one row
C17_OneInsertPerSession ==
    [][ /\ \A c \in 1..Len(submits) :
             ( /\ SubmitReturns(c)
               /\ submits[c].page = "single"
               /\ submits[c].response.success
               /\ submits[c].response.sessionId # "none" )
             => submits[c].pc \in {"save", "notify"}
        /\ \/ dbVerifications' = dbVerifications
           \/ /\ Len(dbVerifications') = Len(dbVerifications) + 1
              /\ SubSeq(dbVerifications', 1, Len(dbVerifications))
                   = dbVerifications ]_vars

\* C18: when an upload of screenshots or of the PDF fails, the submit routine
\* still ends with the received verification response as the result and with
\* the submitting flag cleared
C18_UploadFailureIsNotFatal ==
    [][ \A c \in 1..Len(submits) :
          ( /\ SubmitReturns(c)
            /\ submits[c].pc \in {"uploadScreenshots", "uploadPdf"} )
          => /\ submits'[c].uploadFailed
             /\ result' = submits[c].response
             /\ result'.success
             /\ isSubmitting' = FALSE ]_vars

C18_Witness ==
    \E c \in 1..Len(submits) :
        /\ submits[c].pc = "done"
        /\ submits[c].uploadFailed
        /\ ~isSubmitting
        /\ result.success
        /\ result.sessionId \in SessionIds

\* C19: the single-record submit sends the verify request only for a form
\* that passes every check of the validation schema, and the batch submit
\* sends the multi-record request only when the validation result is valid
\* and the stored fixed-width content is not empty (and it sends that
\* content)
C19_MalformedInputNeverSent ==
    [][ Len(submits') > Len(submits) =>
          LET new == submits'[Len(submits')]
          IN /\ new.pc = "verify"
             /\ new.page = "single" =>
                   /\ NameOk(new.form.firstName)
                   /\ NameOk(new.form.lastName)
                   /\ new.form.middleName = <<>> \/ NameOk(new.form.middleName)
                   /\ SsnOk(Digits(new.form.ssn))
                   /\ new.form.dateOfBirth \in 16..120
                   /\ new.form.activeDutyDate <= new.form.dateOfBirth
                   /\ new.sent.ssn = Digits(new.form.ssn)
                   /\ SsnOk(new.sent.ssn)
             /\ new.page = "batch" =>
                   /\ validation.valid
                   /\ fixedWidthContent # <<>>
                   /\ new.sent = fixedWidthContent ]_vars

C19_Witness ==
    /\ \E c \in 1..Len(submits) :
          submits[c].page = "single" /\ submits[c].pc = "verify"
    /\ errors = {}
    /\ isSubmitting

\* C20: a conversion result never carries both fixed-width content and
\* validation errors; after a conversion that reported errors or failed, the
\* page holds the empty content and an invalid validation state; and
\* validation.valid holds exactly when the stored content is the full,
\* non-empty encoding of a file
C20_EncodingAllOrNothing ==
    /\ []( /\ ~( /\ converted.fixed_width_content # <<>>
                 /\ converted.validation_errors )
           /\ converted.fixed_width_content # <<>> => converted.success
           /\ validation.valid <=> fixedWidthContent # <<>>
           /\ validation.valid =>
                 /\ \E f \in Files : fixedWidthContent = Encode(f)
                 /\ validation.error_count = 0 )
    /\ [][ converted' # converted \/ conversions' # conversions =>
             \/ Len(conversions') > Len(conversions)
             \/ /\ validation'.valid
                     <=> ( /\ converted'.success
                           /\ converted'.fixed_width_content # <<>> )
                /\ fixedWidthContent' = converted'.fixed_width_content
                /\ isValidating' = FALSE ]_vars

C20_Witness ==
    /\ converted.kind = "result"
    /\ converted.validation_errors
    /\ ~validation.valid
    /\ fixedWidthContent = <<>>
    /\ \E k \in 1..Len(conversions) : conversions[k].pc = "done"
    /\ Len(conversions) = 2

\* C21: once the driving routine of a session has returned, the session's
\* status is completed or failed and never in_progress; and every failure of
\* a step after authentication writes the status failed
C21_NeverLeftInProgress ==
    /\ [](\A sid \in SessionIds :
             machine[sid].returned =>
                 dbSessions[sid].status \in {"completed", "failed"})
    /\ [][ \A sid \in SessionIds :
             ( /\ machine[sid].state # "FAILED"
               /\ machine'[sid].state = "FAILED" )
             => dbSessions'[sid].status = "failed" ]_vars

C21_Witness ==
    \E sid \in SessionIds :
        /\ machine[sid].returned
        /\ machine[sid].state = "FAILED"
        /\ dbSessions[sid].status = "failed"
        /\ dbSessions[sid].progress = 66

\* C22: after startTracking(B) has been invoked, the observed session and
\* the observed screenshot list hold data of session B only
C22_ObservedIsTrackedSession ==
    tracked \in SessionIds =>
        /\ session.session_id \in {"none", tracked}
        /\ \A i \in 1..Len(screenshots) : screenshots[i].session_id = tracked

\* C23: on the single-record page, while a submission waits for its
\* response the displayed result is empty, and starting a submission never
\* calls startTracking (for the session of the previous result)
C23_ResultEmptyWhileSubmitting ==
    /\ []( ( /\ route = "single"
             /\ \E c \in 1..Len(submits) : submits[c].pc = "verify" )
           => result = NoResult )
    /\ [][ Len(submits') > Len(submits) => calls' = calls ]_vars

\* C24: after deleteVerification(sessionId, userId) has succeeded, no
\* getUserVerifications(userId) call made later returns a list with the
\* deleted record; a deletion that fails throws and leaves the cache as it is
C24_DeletedRecordNeverReturned ==
    /\ [](\A d \in 1..Len(deletes) : \A f \in 1..Len(fetches) :
             ( /\ deletes[d].pc = "done"
               /\ f > deletes[d].fetchesBefore
               /\ fetches[f].pc = "returned"
               /\ fetches[f].userId = deletes[d].userId )
             => \A i \in 1..Len(fetches[f].result) :
                   fetches[f].result[i].sessionId # deletes[d].sessionId)
    /\ [][ \A d \in 1..Len(deletes) :
             ( /\ deletes[d].pc = "response"
               /\ deletes[d].error
               /\ deletes'[d].pc # "response" )
             => /\ deletes'[d].pc = "thrown"
                /\ verificationCache' = verificationCache ]_vars

\* C25: the clearVerificationCache(userId) call of a deletion removes
\* exactly the record-list entries of that user: the entries of every other
\* user and the signed-URL caches stay as they are
C25_ClearsOnlyThatUser ==
    [][ \A d \in 1..Len(deletes) :
          (deletes[d].pc = "response" /\ deletes'[d].pc = "done")
          => /\ verificationCache' =
                  {e \in verificationCache :
                     \A limit \in {DefaultLimit} :
                        e.key # CacheKey(deletes[d].userId, limit)}
             /\ screenshotCache' = screenshotCache
             /\ pdfCache' = pdfCache ]_vars

\* C26: on the batch page, once every conversion has settled, the stored
\* fixed-width content is that of the file selected last, and it is what a
\* submit sends, whatever the order in which the responses came back
C26_ContentOfLastSelectedFile ==
    /\ []((/\ route = "batch"
           /\ csvFile # "none"
           /\ \A k \in 1..Len(conversions) : conversions[k].pc = "done"
           /\ validation # NoValidation /\ validation.valid)
          => fixedWidthContent = Encode(csvFile))
    /\ [][ ( /\ route = "batch"
             /\ csvFile # "none"
             /\ Len(submits') > Len(submits)
             /\ \A k \in 1..Len(conversions) : conversions[k].pc = "done" )
           => submits'[Len(submits')].sent = Encode(csvFile) ]_vars

\* C27: for a non-null sessionId useSessionStatus eventually reports the
\* terminal status of the backend when status requests eventually succeed,
\* also after a failed first request; with a terminal status reported the
\* interval issues no further poll
C27_TerminalStatusReported ==
    /\ (hook.sessionId # "none") ~> (hook.status \in TerminalStatuses)
    /\ [](hook.status \in TerminalStatuses => hook.status = backendStatus)
    /\ [](hook.status \in TerminalStatuses
          => ~IntervalPolls(hook.effectStatus))

\* C28: when a snapshot read of startTracking fails, the call settles
\* without a subscription, with an error message set and loading false; and
\* whenever a startTracking call settles, loading is false
C28_FailedReadSettlesCleanly ==
    [][ \A c \in 1..Len(calls) :
          /\ ( /\ calls[c].pc \in {"getSession", "getShots"}
               /\ calls'[c].pc = "failed" )
             => /\ error' # NoError
                /\ subs' = subs
                /\ subscriptionsRef' = subscriptionsRef
                /\ loading' = FALSE
          /\ ( /\ calls[c].pc \notin {"done", "failed"}
               /\ calls'[c].pc \in {"done", "failed"} )
             => loading' = FALSE ]_vars

C28_Witness ==
    \E c \in 1..Len(calls) :
       /\ calls[c].pc = "failed"
       /\ error # NoError
       /\ ~loading
       /\ \A i \in 1..Len(subs) : subs[i].sid # calls[c].sid

C30_SentDateIsPickedDate ==
    /\ [](\A f \in DateFields :
             pickedDates[f] # NoDate
             => DisplayedDate(f) = <<pickedDates[f].year, pickedDates[f].month,
                                     pickedDates[f].day>>)
    /\ [][ \A f \in DateFields :
             (sentDates' # sentDates /\ pickedDates[f] # NoDate)
             => sentDates'[f] = <<pickedDates[f].month, pickedDates[f].day,
                                  pickedDates[f].year>> ]_vars

====
